---- MODULE Spec2Model ----
(***************************************************************************)
(* RBC statement parsing of src/scripts/parse_trades.py: the alias table   *)
(* builder, the symbol resolver, the FX rate and the activity walk.        *)
(*                                                                         *)
(* Text is a sequence of one-character strings.  A page is the sequence of *)
(* its raw lines (page.splitlines()); the patterns searched in a whole     *)
(* page hold no line break, so a search in the page is a search in one of  *)
(* its lines.  A finite float is the IEEE 754 double: the record of its    *)
(* sign, its significand of 53 bits and its exponent of two.  float() and  *)
(* the product of two floats round to the nearest double, ties to the even *)
(* significand.                                                            *)
(*                                                                         *)
(* Four specifications: Spec walks the activity pages of one statement     *)
(* line by line (parse_rbc_statement_trades), SpecRbc runs parse_rbc over  *)
(* the statement files of a run, SpecResolve builds alias maps from asset  *)
(* rows and calls resolve_rbc_symbol, SpecNumber calls parse_number.       *)
(***************************************************************************)
EXTENDS Integers, Sequences, FiniteSets, TLC

\* an optional value: None is the empty tuple, a value v present is <<v>>.
\* A text that may be None is the text itself: no symbol or word is empty.
None == <<>>
Some(v) == <<v>>
\* the value of an optional that is not None
Val(o) == o[1]

\* ------------------------------------------------------------------ bounds
\* lines read from the activity pages of a statement (Spec)
MaxLines == 4
\* statement files of a run of parse_rbc (SpecRbc)
MaxFiles == 2
\* asset rows the alias maps are built from (SpecResolve)
MaxRows == 2
\* characters of a text parse_number is called with (SpecNumber)
MaxText == 3

\* --------------------------------------------------------------- characters
UpperSeq ==
  <<"A","B","C","D","E","F","G","H","I","J","K","L","M",
    "N","O","P","Q","R","S","T","U","V","W","X","Y","Z">>
LowerSeq ==
  <<"a","b","c","d","e","f","g","h","i","j","k","l","m",
    "n","o","p","q","r","s","t","u","v","w","x","y","z">>
DigitSeq == <<"0","1","2","3","4","5","6","7","8","9">>

UpperCh == {UpperSeq[i] : i \in 1..26}
LowerCh == {LowerSeq[i] : i \in 1..26}
DigitCh == {DigitSeq[i] : i \in 1..10}
SpaceCh == {" ", "\t"}
\* \w of the re module, on the characters of the model
WordCh  == UpperCh \cup LowerCh \cup DigitCh \cup {"_"}

\* str.upper(), one character
UpperChar(c) ==
  IF c \in LowerCh THEN UpperSeq[CHOOSE i \in 1..26 : LowerSeq[i] = c] ELSE c

\* int() of one digit
DigitVal(c) == (CHOOSE i \in 1..10 : DigitSeq[i] = c) - 1

\* --------------------------------------------------------------------- text
ToUpper(t) == [i \in 1..Len(t) |-> UpperChar(t[i])]

Slice(t, a, b) == IF a > b THEN <<>> ELSE SubSeq(t, a, b)

\* t[p:] == pat[:len(pat)], p counted from 1
MatchesAt(t, p, pat) ==
  /\ p >= 1
  /\ p + Len(pat) - 1 <= Len(t)
  /\ \A i \in 1..Len(pat) : t[p + i - 1] = pat[i]

\* "pat in t"
Contains(t, pat) == \E p \in 1..(Len(t) + 1) : MatchesAt(t, p, pat)

\* t.startswith(pat)
StartsWith(t, pat) == MatchesAt(t, 1, pat)

AllIn(t, S) == \A i \in 1..Len(t) : t[i] \in S

\* the end (exclusive) of the longest run of characters of S that starts at p
RunEnd(t, p, S) ==
  IF \A q \in p..Len(t) : t[q] \in S THEN (IF p > Len(t) THEN p ELSE Len(t) + 1)
  ELSE CHOOSE q \in p..Len(t) : t[q] \notin S /\ \A r \in p..(q - 1) : t[r] \in S

\* the end (exclusive) of the longest run of characters outside S from p on
RunEndNot(t, p, S) ==
  IF \A q \in p..Len(t) : t[q] \notin S THEN (IF p > Len(t) THEN p ELSE Len(t) + 1)
  ELSE CHOOSE q \in p..Len(t) : t[q] \in S /\ \A r \in p..(q - 1) : t[r] \notin S

\* the positions of a set, lowest first
Ascending(ps) ==
  [k \in 1..Cardinality(ps) |->
     CHOOSE a \in ps : Cardinality({b \in ps : b < a}) = k - 1]

\* where the runs of characters of S start in t, lowest first
RunStarts(t, S) ==
  Ascending({p \in 1..Len(t) : t[p] \in S /\ (p = 1 \/ t[p - 1] \notin S)})

\* where the runs of characters outside S start in t, lowest first
RunStartsNot(t, S) ==
  Ascending({p \in 1..Len(t) : t[p] \notin S /\ (p = 1 \/ t[p - 1] \in S)})

\* str.split(): the words between runs of whitespace
Split(t) ==
  LET words(st) == [k \in 1..Len(st) |-> Slice(t, st[k], RunEndNot(t, st[k], SpaceCh) - 1)]
  IN  words(RunStartsNot(t, SpaceCh))

\* str.strip()
Strip(t) ==
  LET between(ns) ==
        IF ns = {} THEN <<>>
        ELSE Slice(t, CHOOSE a \in ns : \A b \in ns : a <= b,
                      CHOOSE a \in ns : \A b \in ns : b <= a)
  IN  between({p \in 1..Len(t) : t[p] \notin SpaceCh})

\* " ".join(words)
RECURSIVE JoinSp(_)
JoinSp(ws) ==
  IF ws = <<>> THEN <<>>
  ELSE IF Len(ws) = 1 THEN ws[1]
  ELSE ws[1] \o <<" ">> \o JoinSp(Tail(ws))

\* normalize_space: " ".join((text or "").strip().split())
normalize_space(text) == JoinSp(Split(text))

\* compact_key: re.sub(r"[^A-Z0-9]+", "", (text or "").upper())
compact_key(text) == SelectSeq(ToUpper(text), LAMBDA c : c \in UpperCh \cup DigitCh)

\* token_key_set: set(re.findall(r"[A-Z0-9]+", (text or "").upper()))
token_key_set(text) ==
  LET keys(u, st) == {Slice(u, st[k], RunEnd(u, st[k], UpperCh \cup DigitCh) - 1) : k \in 1..Len(st)}
      found(u)    == keys(u, RunStarts(u, UpperCh \cup DigitCh))
  IN  found(ToUpper(text))

\* normalize_ticker_symbol
normalize_ticker_symbol(ticker) ==
  LET t == ToUpper(Strip(ticker))
  IN  IF t = <<"G","O","O","G","L">> THEN <<"G","O","O","G">>
      ELSE IF t = <<"B","R","K","B">> THEN <<"B","R","K","-","B">>
      ELSE t

\* ------------------------------------------------------------------ numbers
RECURSIVE DigitsValue(_)
DigitsValue(ds) ==
  IF ds = <<>> THEN 0
  ELSE 10 * DigitsValue(Slice(ds, 1, Len(ds) - 1)) + DigitVal(ds[Len(ds)])

\* the floats that are not finite: the exponent is past that of every double
Inf    == [neg |-> FALSE, m |-> <<>>, e |-> 1024]
NegInf == [neg |-> TRUE, m |-> <<>>, e |-> 1024]
NaN    == [neg |-> FALSE, m |-> <<"1">>, e |-> 1024]

\* n zeros
Zeros(n) == [i \in 1..n |-> "0"]

\* ds without the zeros at its start
DropZerosLeft(ds) ==
  LET nz == {i \in 1..Len(ds) : ds[i] # "0"}
  IN  IF nz = {} THEN <<>> ELSE Slice(ds, CHOOSE i \in nz : \A j \in nz : i <= j, Len(ds))

\* a < b of two runs of digits without zeros at their start
NatLess(a, b) ==
  \/ Len(a) < Len(b)
  \/ /\ Len(a) = Len(b)
     /\ \E i \in 1..Len(a) :
          DigitVal(a[i]) < DigitVal(b[i]) /\ \A j \in 1..(i - 1) : a[j] = b[j]

\* a run of digits in groups of three, the last group first: the number in
\* base 1000
Limbs(ds) ==
  LET at(j) == IF j < 1 THEN 0 ELSE DigitVal(ds[j])
      limb(e) == 100 * at(e - 2) + 10 * at(e - 1) + at(e)
  IN  [k \in 1..((Len(ds) + 2) \div 3) |-> limb(Len(ds) - 3 * (k - 1))]

\* the three digits of a group
LimbDigits(v) ==
  <<DigitSeq[(v \div 100) + 1], DigitSeq[((v \div 10) % 10) + 1], DigitSeq[(v % 10) + 1]>>

\* f[a] + ... + f[b], by halves
RECURSIVE SumRange(_, _, _)
SumRange(f, a, b) ==
  IF a > b THEN 0
  ELSE IF a = b THEN f[a]
  ELSE SumRange(f, a, (a + b) \div 2) + SumRange(f, (a + b) \div 2 + 1, b)

\* the sums v of the columns of a number, the k-th counting 1000^(k-1), with
\* what each sum has above 999 moved to the next column
Carried(v) ==
  SubSeq([k \in 1..(Len(v) + 1) |->
     (IF k <= Len(v) THEN v[k] % 1000 ELSE 0) + (IF k > 1 THEN v[k - 1] \div 1000 ELSE 0)], 1, Len(v) + 1)

\* the groups of a number from sums of its columns that are at most 1002:
\* one is carried into a column when a column below it has 1000 or more and
\* the columns between the two have 999
Groups(v) ==
  LET carry(k) == \E j \in 1..(k - 1) : v[j] >= 1000 /\ \A i \in (j + 1)..(k - 1) : v[i] = 999
  IN  SubSeq([k \in 1..(Len(v) + 1) |-> ((IF k <= Len(v) THEN v[k] ELSE 0) + (IF carry(k) THEN 1 ELSE 0)) % 1000], 1, Len(v) + 1)

\* the digits of the groups g, the last group first in g
GroupDigits(g) ==
  [i \in 1..(3 * Len(g)) |-> LimbDigits(g[Len(g) - (i - 1) \div 3])[((i - 1) % 3) + 1]]

\* a * b of two runs of digits, by groups of three: the long multiplication.
\* A sum of a column is below 2^31, so three times carried it is at most 1002.
NatMul(a, b) ==
  LET cols(x, y) == SubSeq([k \in 1..(Len(x) + Len(y) - 1) |->
                       SumRange([i \in 1..Len(x) |->
                                   IF k + 1 - i \in 1..Len(y) THEN x[i] * y[k + 1 - i] ELSE 0],
                                IF k > Len(y) THEN k + 1 - Len(y) ELSE 1,
                                IF k < Len(x) THEN k ELSE Len(x))], 1, Len(x) + Len(y) - 1)
  IN  IF a = <<>> \/ b = <<>> THEN <<>>
      ELSE DropZerosLeft(GroupDigits(Groups(Carried(Carried(Carried(cols(Limbs(a), Limbs(b))))))))

\* the digits of an integer from 1 to 2^31 - 1
IntDigits(v) ==
  DropZerosLeft(GroupDigits(<<v % 1000, (v \div 1000) % 1000, (v \div 1000000) % 1000,
                              v \div 1000000000>>))

\* a * b^n for a run of digits a and b = 2 or b = 5, by factors b^k below
\* 2^31: k is at most 30 for 2 and at most 13 for 5
RECURSIVE PowMul(_, _, _)
PowMul(a, b, n) ==
  LET most == IF b = 2 THEN 30 ELSE 13
      by(k) == PowMul(NatMul(a, IntDigits(b ^ k)), b, n - k)
  IN  IF n = 0 \/ a = <<>> THEN a ELSE by(IF n > most THEN most ELSE n)

\* a + a of a run of digits: a digit is doubled and takes one from a digit
\* of 5 or more after it
NatTwice(a) ==
  LET carry(k) == IF k <= Len(a) /\ DigitVal(a[k]) >= 5 THEN 1 ELSE 0
      twice(k) == IF k = 1 THEN 0 ELSE 2 * DigitVal(a[k - 1])
  IN  DropZerosLeft(SubSeq([k \in 1..(Len(a) + 1) |-> DigitSeq[((twice(k) + carry(k)) % 10) + 1]],
                           1, Len(a) + 1))

\* a + 1 of a run of digits
NatSucc(a) ==
  LET succ(n9) ==
        IF n9 = {} THEN <<"1">> \o Zeros(Len(a))
        ELSE LET j == CHOOSE i \in n9 : \A h \in n9 : h <= i
             IN  Slice(a, 1, j - 1) \o <<DigitSeq[DigitVal(a[j]) + 2]>> \o Zeros(Len(a) - j)
  IN  succ({i \in 1..Len(a) : a[i] # "9"})

\* 2^52 and 2^53: a double has a significand of 53 bits
TwoTo52 == <<"4","5","0","3","5","9","9","6","2","7","3","7","0","4","9","6">>
TwoTo53 == <<"9","0","0","7","1","9","9","2","5","4","7","4","0","9","9","2">>
\* the least and the greatest exponent of the significand of a double
MinExp == 0 - 1074
MaxExp == 971

\* a float that is finite: the double of the value m * 2^e, m the digits of
\* its significand, 2^52 <= m < 2^53 (m < 2^52 with e = MinExp, and no digit
\* with e = 0 for zero), so that equal doubles are equal records; past the
\* greatest double it is an infinity.  0.0 and -0.0 are equal and are one
\* record.
Float(neg, m, e) ==
  LET make(d) ==
        IF d = <<>> THEN [neg |-> FALSE, m |-> <<>>, e |-> 0]
        ELSE IF e > MaxExp \/ (d = TwoTo53 /\ e = MaxExp) THEN (IF neg THEN NegInf ELSE Inf)
        ELSE IF d = TwoTo53 THEN [neg |-> neg, m |-> TwoTo52, e |-> e + 1]
        ELSE [neg |-> neg, m |-> d, e |-> e]
  IN  make(DropZerosLeft(m))

\* the digits of a * 10^t before the point, and those after it
IntPart(a, t) ==
  DropZerosLeft(IF t >= 0 THEN a \o Zeros(t) ELSE Slice(a, 1, Len(a) + t))
FracPart(a, t) ==
  IF t >= 0 THEN <<>>
  ELSE IF Len(a) < 0 - t THEN Zeros(0 - t - Len(a)) \o a
  ELSE Slice(a, Len(a) + t + 1, Len(a))

\* the float of the sign neg and the value i.f * 2^e, i the digits before
\* the point and f those after it, with the significand the integer nearest
\* to i.f, the even one of two that are as near
HalfEven(neg, i, f, e) ==
  LET odd == i # <<>> /\ DigitVal(i[Len(i)]) % 2 = 1
      up  == /\ f # <<>>
             /\ \/ DigitVal(f[1]) > 5
                \/ f[1] = "5" /\ (DropZerosLeft(Tail(f)) # <<>> \/ odd)
  IN  Float(neg, IF up THEN NatSucc(i) ELSE i, e)

\* the float nearest to a * 10^t * 2^e: the value is doubled, and e is one
\* less, until the part before the point has 53 bits or e is the least
\* exponent
RECURSIVE Widened(_, _, _, _)
Widened(neg, a, t, e) ==
  IF e <= MinExp \/ ~NatLess(IntPart(a, t), TwoTo52)
  THEN HalfEven(neg, IntPart(a, t), FracPart(a, t), e)
  ELSE Widened(neg, NatTwice(a), t, e - 1)

\* the double nearest to ds * 10^x * 2^e, the one with the even significand
\* of two that are as near: the rounding of float() and of the product of
\* two doubles.  ds * 10^x / 2^g is ds * 2^(-g) * 10^x, or ds * 5^g *
\* 10^(x - g).  With the first g the part before the point is below 2^53.
Nearest(neg, ds, x, e) ==
  LET d == DropZerosLeft(ds)
      hi == ((Len(d) + x) * 3321929) \div 1000000 - 51
      shift(g) == Widened(neg,
                          PowMul(d, IF g <= 0 THEN 2 ELSE 5, IF g <= 0 THEN 0 - g ELSE g),
                          IF g <= 0 THEN x ELSE x - g,
                          g + e)
  IN  IF d = <<>> THEN Float(FALSE, <<>>, 0)
      ELSE shift(IF hi + e < MinExp THEN MinExp - e ELSE hi)

\* the float of a decimal literal: the sign, the digits before the point
\* and the digits after it
Dec(neg, ip, fp) == Nearest(neg, ip \o fp, 0 - Len(fp), 0)

\* digits with single underscores between them, as float() reads them
IsDigitPart(t) ==
  /\ t # <<>>
  /\ AllIn(t, DigitCh \cup {"_"})
  /\ t[1] # "_" /\ t[Len(t)] # "_"
  /\ \A i \in 1..(Len(t) - 1) : ~(t[i] = "_" /\ t[i + 1] = "_")

\* float(s); None is ValueError.  A finite value is the double nearest to
\* the decimal number s writes.
ParseFloat(s) ==
  LET digs(x) == SelectSeq(x, LAMBDA c : c # "_")
      number(neg, ip, fp, hasx, xneg, xd) ==
        LET ok == /\ ip = <<>> \/ IsDigitPart(ip)
                  /\ fp = <<>> \/ IsDigitPart(fp)
                  /\ Len(ip) + Len(fp) > 0
                  /\ hasx => IsDigitPart(xd)
            ex == IF ~hasx THEN 0
                  ELSE IF xneg THEN 0 - DigitsValue(digs(xd)) ELSE DigitsValue(digs(xd))
        IN  IF ~ok THEN None
            ELSE Some(Nearest(neg, digs(ip) \o digs(fp), ex - Len(digs(fp)), 0))
      mantissa(neg, mant, de, hasx, xt) ==
        number(neg, Slice(mant, 1, de - 1), Slice(mant, de + 1, Len(mant)), hasx,
               xt # <<>> /\ xt[1] = "-",
               IF xt # <<>> /\ xt[1] \in {"-", "+"} THEN Tail(xt) ELSE xt)
      exponent(neg, body, mant, xe) ==
        mantissa(neg, mant, RunEndNot(mant, 1, {"."}), xe <= Len(body),
                 Slice(body, xe + 1, Len(body)))
      parts(neg, body, xe) == exponent(neg, body, Slice(body, 1, xe - 1), xe)
      word(neg, body) ==
        IF ToUpper(body) \in {<<"I","N","F">>, <<"I","N","F","I","N","I","T","Y">>}
        THEN Some(IF neg THEN NegInf ELSE Inf)
        ELSE IF ToUpper(body) = <<"N","A","N">> THEN Some(NaN)
        ELSE parts(neg, body, RunEndNot(body, 1, {"e", "E"}))
      signed(t) ==
        word(t # <<>> /\ t[1] = "-",
             IF t # <<>> /\ t[1] \in {"-", "+"} THEN Tail(t) ELSE t)
  IN  signed(Strip(s))

\* parse_number
parse_number(text) ==
  LET cleaned == Strip(SelectSeq(text, LAMBDA c : c \notin {"$", ","}))
      moved   == IF cleaned # <<>> /\ cleaned[Len(cleaned)] = "-"
                 THEN <<"-">> \o Slice(cleaned, 1, Len(cleaned) - 1)
                 ELSE cleaned
  IN  ParseFloat(moved)

\* abs()
Abs(x) == [x EXCEPT !.neg = FALSE]

\* a * b of two floats: the double nearest to the product; an infinity
\* times zero, and a product with nan, is nan
Mul(a, b) ==
  IF a = NaN \/ b = NaN THEN NaN
  ELSE IF a.e = 1024 \/ b.e = 1024
  THEN (IF a.m \o b.m = <<>> /\ 0 \in {a.e, b.e} THEN NaN
        ELSE IF a.neg # b.neg THEN NegInf ELSE Inf)
  ELSE Nearest(a.neg # b.neg, NatMul(a.m, b.m), 0, a.e + b.e)

\* int(text) of a run of digits
ParseInt(ds) == DigitsValue(ds)

\* f"{n:0{w}d}"
RECURSIVE DigitsOf(_)
DigitsOf(n) ==
  IF n < 10 THEN <<DigitSeq[n + 1]>> ELSE DigitsOf(n \div 10) \o <<DigitSeq[(n % 10) + 1]>>
RECURSIVE ZeroPad(_, _)
ZeroPad(t, w) == IF Len(t) >= w THEN t ELSE ZeroPad(<<"0">> \o t, w)
FormatInt(n, w) ==
  IF n < 0 THEN <<"-">> \o ZeroPad(DigitsOf(0 - n), w - 1) ELSE ZeroPad(DigitsOf(n), w)

\* -------------------------------------------------------------- patterns
\* a word is the whole of [0-9][0-9,]*(?:\.\d+)?-? (minus) or of
\* [0-9][0-9,]*(?:\.\d+)? (no minus)
IsNumberWord(w, minus) ==
  /\ w # <<>>
  /\ w[1] \in DigitCh
  /\ LET ie   == RunEnd(w, 2, DigitCh \cup {","})
         dot  == ie <= Len(w) /\ w[ie] = "."
         fe   == IF dot THEN RunEnd(w, ie + 1, DigitCh) ELSE ie
         te   == IF minus /\ fe <= Len(w) /\ w[fe] = "-" THEN fe + 1 ELSE fe
     IN  /\ dot => fe > ie + 1
         /\ te = Len(w) + 1

\* RBC_AMOUNT_LINE_RE.match(line): the three groups, or None
RBC_AMOUNT_LINE_RE(line) ==
  LET ws == Split(line)
  IN  IF /\ line # <<>>
         /\ line[1] \notin SpaceCh
         /\ line[Len(line)] \notin SpaceCh
         /\ Len(ws) = 3
         /\ \A i \in 1..3 : IsNumberWord(ws[i], TRUE)
      THEN ws
      ELSE None

\* RBC_INLINE_AMOUNT_RE.match(text): groups 1 and 4, or None.  The numbers
\* hold no blank and are fenced by \s+ and $, so they are the last three
\* words, and the lazy group 1 is all the text before them.
RBC_INLINE_AMOUNT_RE(text) ==
  LET n  == Len(text)
      \* the start of the last word, of the last but one, ...
      LastStart(e) == CHOOSE p \in 1..(e + 1) :
                        /\ \A q \in p..e : text[q] \notin SpaceCh
                        /\ (p = 1 \/ text[p - 1] \in SpaceCh)
      \* the end of the blanks that close at e
      BlankStart(e) == CHOOSE p \in 1..(e + 1) :
                        /\ \A q \in p..e : text[q] \in SpaceCh
                        /\ (p = 1 \/ text[p - 1] \notin SpaceCh)
      s3 == LastStart(n)
      b3 == BlankStart(s3 - 1)
      s2 == LastStart(b3 - 1)
      b2 == BlankStart(s2 - 1)
      s1 == LastStart(b2 - 1)
      b1 == BlankStart(s1 - 1)
  IN  IF /\ n > 0 /\ s3 <= n /\ s3 > 1 /\ b3 < s3
         /\ b3 > 1 /\ s2 < b3 /\ s2 > 1 /\ b2 < s2
         /\ b2 > 1 /\ s1 < b2 /\ s1 > 1 /\ b1 < s1
         /\ IsNumberWord(Slice(text, s3, n), TRUE)
         /\ IsNumberWord(Slice(text, s2, b3 - 1), TRUE)
         /\ IsNumberWord(Slice(text, s1, b2 - 1), TRUE)
      THEN Some([g1 |-> Slice(text, 1, b1 - 1), g4 |-> Slice(text, s3, n)])
      ELSE None

MonthForms ==
  <<<<"J","A","N","U","A","R","Y">>,
    <<"J","A","N">>,
    <<"F","E","B","R","U","A","R","Y">>,
    <<"F","E","B">>,
    <<"M","A","R","C","H">>,
    <<"M","A","R">>,
    <<"A","P","R","I","L">>,
    <<"A","P","R">>,
    <<"M","A","Y">>,
    <<"J","U","N","E">>,
    <<"J","U","N">>,
    <<"J","U","L","Y">>,
    <<"J","U","L">>,
    <<"A","U","G","U","S","T">>,
    <<"A","U","G">>,
    <<"S","E","P","T","E","M","B","E","R">>,
    <<"S","E","P","T">>,
    <<"S","E","P">>,
    <<"O","C","T","O","B","E","R">>,
    <<"O","C","T">>,
    <<"N","O","V","E","M","B","E","R">>,
    <<"N","O","V">>,
    <<"D","E","C","E","M","B","E","R">>,
    <<"D","E","C">>>>

\* the pattern after the month name, from q on:
\* \.?\s*(\d{1,2})\s+([A-Z]+)\b\s*(.*)$ ; every greedy step is forced, a
\* shorter choice leaves a character the next item cannot take
ActivityTailAt(line, mon, q) ==
  LET q1 == IF q <= Len(line) /\ line[q] = "." THEN q + 1 ELSE q
      q2 == RunEnd(line, q1, SpaceCh)
      q3 == RunEnd(line, q2, DigitCh)
      q4 == RunEnd(line, q3, SpaceCh)
      q5 == RunEnd(line, q4, UpperCh)
      q6 == RunEnd(line, q5, SpaceCh)
  IN  IF /\ q3 - q2 \in {1, 2}
         /\ q4 > q3
         /\ q5 > q4
         /\ (q5 > Len(line) \/ line[q5] \notin WordCh)
      THEN Some([mon      |-> mon,
                 day_text |-> Slice(line, q2, q3 - 1),
                 activity |-> Slice(line, q4, q5 - 1),
                 rest     |-> Slice(line, q6, Len(line))])
      ELSE None

\* the pattern tried at p: (?:^|\b) then a month name then the tail
ActivityAt(line, p) ==
  LET edge == p = 1 \/ line[p - 1] \notin WordCh
      hits == {k \in 1..Len(MonthForms) :
                 /\ MatchesAt(line, p, MonthForms[k])
                 /\ ActivityTailAt(line, MonthForms[k], p + Len(MonthForms[k])) # None}
  IN  IF edge /\ hits # {}
      THEN LET k == CHOOSE k \in hits : \A j \in hits : k <= j
           IN  ActivityTailAt(line, MonthForms[k], p + Len(MonthForms[k]))
      ELSE None

\* RBC_ACTIVITY_START_RE.match(line) or .search(line): the leftmost hit
RBC_ACTIVITY_START_RE(line) ==
  LET ps == {p \in 1..Len(line) : ActivityAt(line, p) # None}
  IN  IF ps = {} THEN None
      ELSE ActivityAt(line, CHOOSE p \in ps : \A r \in ps : p <= r)

MonthKeys ==
  <<<<"J","A","N">>, <<"F","E","B">>, <<"M","A","R">>, <<"A","P","R">>,
    <<"M","A","Y">>, <<"J","U","N">>, <<"J","U","L">>, <<"A","U","G">>,
    <<"S","E","P">>, <<"O","C","T">>, <<"N","O","V">>, <<"D","E","C">>>>

\* MONTH_TO_NUMBER.get(token)
MONTH_TO_NUMBER(token) ==
  IF \E i \in 1..12 : MonthKeys[i] = token
  THEN Some(CHOOSE i \in 1..12 : MonthKeys[i] = token)
  ELSE None

\* month_token_to_number
RECURSIVE StripDots(_)
StripDots(t) ==
  IF t # <<>> /\ t[Len(t)] = "." THEN StripDots(Slice(t, 1, Len(t) - 1)) ELSE t
month_token_to_number(token) ==
  LET t == StripDots(ToUpper(token))
  IN  IF StartsWith(t, <<"S","E","P","T">>)
      THEN MONTH_TO_NUMBER(<<"S","E","P">>)
      ELSE MONTH_TO_NUMBER(Slice(t, 1, IF Len(t) < 3 THEN Len(t) ELSE 3))

IgnoreLiterals ==
  {<<"U","N","S","O","L","I","C","I","T","E","D">>,
   <<"I","N","T","E","R","C","L","A","S","S","S","W","I","T","C","H","I","N">>,
   <<"I","N","T","E","R","C","L","A","S","S","S","W","I","T","C","H","O","U","T">>,
   <<"A","S","O","F">>,
   <<"A","V","G"," ","P","R","I","C","E"," ","S","H","O","W","N">>,
   <<"W","E"," ","A","C","T","E","D"," ","A","S"," ","P","R","I","N","C","I","P","A","L">>,
   <<"T","H","E","S","E","A","R","E","S","E","C","U","R","I","T","I","E","S">>,
   <<"R","E","L","A","T","E","D","I","S","S","U","E","R">>,
   <<"S","T","C","G">>,
   <<"R","E","I","N","V">>,
   <<"R","E","I","N","V","@">>,
   <<"D","I","S","T"," ","O","N">>,
   <<"C","A","S","H","D","I","V"," ","O","N">>,
   <<"C","A","S","H"," ","D","I","V"," ","O","N">>,
   <<"P","R","E","M","I","U","M","D","I","S","T","O","N">>,
   <<"P","R","E","M","I","U","M"," ","D","I","S","T"," ","O","N">>,
   <<"D","A">>,
   <<"C","A">>}

\* REC[0-9/]+PAY[0-9/]+ (sp = <<>>) and REC [0-9/]+ PAY [0-9/]+ (sp = <<" ">>)
IsRecPay(u, sp) ==
  LET a  == <<"R","E","C">> \o sp
      b  == sp \o <<"P","A","Y">> \o sp
      e1 == RunEnd(u, Len(a) + 1, DigitCh \cup {"/"})
  IN  /\ StartsWith(u, a)
      /\ \E m \in (Len(a) + 2)..e1 :
           /\ MatchesAt(u, m, b)
           /\ m + Len(b) <= Len(u)
           /\ RunEnd(u, m + Len(b), DigitCh \cup {"/"}) = Len(u) + 1

\* RBC_IGNORE_DESCRIPTION_LINE_RE.match(u) is not None
RBC_IGNORE_DESCRIPTION_LINE_RE(u) ==
  \/ u \in IgnoreLiterals
  \/ IsRecPay(u, <<>>)
  \/ IsRecPay(u, <<" ">>)

\* ------------------------------------------------- statement file context
\* extract_statement_year_month: re.search(r"(\d{4})-(\d{2})-(\d{2})", name);
\* None stands for (None, None, None)
extract_statement_year_month(name) ==
  LET DateAt(p) ==
        /\ p + 9 <= Len(name)
        /\ AllIn(Slice(name, p, p + 3), DigitCh)
        /\ name[p + 4] = "-"
        /\ AllIn(Slice(name, p + 5, p + 6), DigitCh)
        /\ name[p + 7] = "-"
        /\ AllIn(Slice(name, p + 8, p + 9), DigitCh)
      ps == {p \in 1..Len(name) : DateAt(p)}
  IN  IF ps = {} THEN None
      ELSE LET p == CHOOSE q \in ps : \A r \in ps : q <= r
           IN  Some(<<ParseInt(Slice(name, p, p + 3)),
                      ParseInt(Slice(name, p + 5, p + 6)),
                      ParseInt(Slice(name, p + 8, p + 9))>>)

FxHead == <<"E","x","c","h","a","n","g","e"," ","r","a","t","e"," ","1","U","S","D"," ","="," ">>
FxTail == <<" ","C","A","D">>

\* RBC_FX_RE tried at p of one line: group 1, or None
FxAt(line, p) ==
  LET a == p + Len(FxHead)
      e == RunEnd(line, a, DigitCh \cup {"."})
  IN  IF MatchesAt(line, p, FxHead) /\ e > a /\ MatchesAt(line, e, FxTail)
      THEN Slice(line, a, e - 1)
      ELSE None

\* RBC_FX_RE.search(page): group 1 of the first hit of the page, or None
RECURSIVE RBC_FX_RE(_)
RBC_FX_RE(page) ==
  IF page = <<>> THEN None
  ELSE LET line == page[1]
           ps   == {p \in 1..Len(line) : FxAt(line, p) # None}
       IN  IF ps = {} THEN RBC_FX_RE(Tail(page))
           ELSE FxAt(line, CHOOSE p \in ps : \A r \in ps : p <= r)

\* 1.35
DefaultRate == Dec(FALSE, <<"1">>, <<"3","5">>)

\* statement_usd_to_cad_rate as it would be if the scan kept going and the
\* last rate won
RECURSIVE statement_usd_to_cad_rate_last(_)
statement_usd_to_cad_rate_last(pages) ==
  IF pages = <<>> THEN DefaultRate
  ELSE LET m == RBC_FX_RE(pages[Len(pages)])
       IN  IF m # None /\ ParseFloat(m) # None
           THEN Val(ParseFloat(m))
           ELSE statement_usd_to_cad_rate_last(SubSeq(pages, 1, Len(pages) - 1))

\* statement_usd_to_cad_rate
RECURSIVE statement_usd_to_cad_rate(_)
statement_usd_to_cad_rate(pages) ==
  IF pages = <<>> THEN DefaultRate
  ELSE LET m == RBC_FX_RE(pages[1])
       IN  IF m # None /\ ParseFloat(m) # None
           THEN Val(ParseFloat(m))
           ELSE statement_usd_to_cad_rate(Tail(pages))

UsdMarker == <<"S","t","a","t","e","m","e","n","t"," ","(","U",".","S",".","$",")">>

\* page_currency: "USD" if "Statement (U.S.$)" in page else "CAD"
PageCurrency(page) ==
  IF \E i \in 1..Len(page) : Contains(page[i], UsdMarker) THEN "USD" ELSE "CAD"

\* --------------------------------------------------------------- alias maps
\* a dict is the sequence of its <<key, value>> items in insertion order
Has(d, k) == \E i \in 1..Len(d) : d[i][1] = k
Get(d, k) == d[CHOOSE i \in 1..Len(d) : d[i][1] = k][2]
\* dict.setdefault(k, v)
\* d[k] = v: the assignment that replaces what the key held
SetDefault_last(d, k, v) ==
  IF Has(d, k) THEN [i \in 1..Len(d) |-> IF d[i][1] = k THEN <<k, v>> ELSE d[i]]
  ELSE Append(d, <<k, v>>)
SetDefault(d, k, v) == IF Has(d, k) THEN d ELSE Append(d, <<k, v>>)

\* the (\d{3,5}) groups of re.findall(r"\((\d{3,5})\)", t), in order
ParenCodes(t) ==
  LET e(p)      == RunEnd(t, p + 1, DigitCh)
      closed(q) == q <= Len(t) /\ t[q] = ")"
      open(p, q) == t[p] = "(" /\ q - (p + 1) \in 3..5 /\ closed(q)
      codes(st) == [k \in 1..Len(st) |-> Slice(t, st[k] + 1, e(st[k]) - 1)]
  IN  codes(Ascending({p \in 1..Len(t) : open(p, e(p))}))

\* re.findall(r"(?<!\d)(\d{3,5})(?!\d)", t): the whole runs of 3 to 5 digits
DigitRuns(t) ==
  LET e(p)      == RunEnd(t, p, DigitCh)
      start(p)  == t[p] \in DigitCh /\ (p = 1 \/ t[p - 1] \notin DigitCh)
      runs(st)  == [k \in 1..Len(st) |-> Slice(t, st[k], e(st[k]) - 1)]
  IN  runs(Ascending({p \in 1..Len(t) : start(p) /\ e(p) - p \in 3..5}))

\* RBC_ASSET_LINE_RE.match(line) for a normalized line: groups 1 and 2, or
\* None.  The five last words are the symbol, three numbers and the $ value.
RBC_ASSET_LINE_RE(line) ==
  LET ws == Split(line)
      n  == Len(ws)
      IsSymbolWord(w) ==
        /\ Len(w) \in 2..13
        /\ w[1] \in UpperCh
        /\ AllIn(Tail(w), UpperCh \cup DigitCh \cup {".", "-"})
  IN  IF /\ n >= 6
         /\ IsSymbolWord(ws[n - 4])
         /\ \A i \in (n - 3)..(n - 1) : IsNumberWord(ws[i], FALSE)
         /\ ws[n][1] = "$"
         /\ IsNumberWord(Tail(ws[n]), FALSE)
      THEN Some([g1 |-> JoinSp(SubSeq(ws, 1, n - 5)), g2 |-> ws[n - 4]])
      ELSE None

AssetReviewMark == <<"A","s","s","e","t"," ","R","e","v","i","e","w">>
ActivityMark    == <<"A","c","c","o","u","n","t"," ","A","c","t","i","v","i","t","y">>

\* lines 356-370 of collect_rbc_asset_aliases: one matched asset row entered
\* into tb = [compact_to_symbol, code_to_symbol]
AddAssetRow(tb, m) ==
  LET desc   == normalize_space(m.g1)
      symbol == normalize_ticker_symbol(ToUpper(m.g2))
      key    == compact_key(desc)
      codes  == ParenCodes(desc)
      c2s    == IF key # <<>>
                THEN SetDefault(tb.compact_to_symbol, key, symbol)
                ELSE tb.compact_to_symbol
      k1     == IF codes # <<>>
                THEN SetDefault(tb.code_to_symbol, codes[1], symbol)
                ELSE tb.code_to_symbol
      IsFund(pre) == /\ StartsWith(symbol, pre)
                     /\ Len(symbol) > 3
                     /\ AllIn(Slice(symbol, 4, Len(symbol)), DigitCh)
      k2     == IF IsFund(<<"R","B","F">>)
                THEN SetDefault(k1, Slice(symbol, 4, Len(symbol)), symbol)
                ELSE k1
      k3     == IF IsFund(<<"F","I","D">>)
                THEN SetDefault(k2, Slice(symbol, 4, Len(symbol)), symbol)
                ELSE k2
  IN  [compact_to_symbol |-> c2s, code_to_symbol |-> k3]

\* the loop over the lines of one page, from line i on
RECURSIVE CollectLines(_, _, _, _)
CollectLines(page, i, in_asset_review, tb) ==
  IF i > Len(page) THEN tb
  ELSE LET line == normalize_space(page[i])
       IN  IF line = <<>> THEN CollectLines(page, i + 1, in_asset_review, tb)
           ELSE IF Contains(line, AssetReviewMark)
                THEN CollectLines(page, i + 1, TRUE, tb)
           ELSE IF in_asset_review /\ Contains(line, ActivityMark)
                THEN CollectLines(page, i + 1, FALSE, tb)
           ELSE IF ~in_asset_review
                THEN CollectLines(page, i + 1, in_asset_review, tb)
           ELSE IF RBC_ASSET_LINE_RE(line) = None
                THEN CollectLines(page, i + 1, in_asset_review, tb)
           ELSE CollectLines(page, i + 1, in_asset_review,
                             AddAssetRow(tb, Val(RBC_ASSET_LINE_RE(line))))

\* collect_rbc_asset_aliases: in_asset_review starts False on every page
RECURSIVE collect_rbc_asset_aliases(_, _)
collect_rbc_asset_aliases(pages, tb) ==
  IF pages = <<>> THEN tb
  ELSE collect_rbc_asset_aliases(Tail(pages), CollectLines(pages[1], 1, FALSE, tb))

EmptyTables == [compact_to_symbol |-> <<>>, code_to_symbol |-> <<>>]

\* ---------------------------------------------------------- symbol resolver
Min(a, b) == IF a <= b THEN a ELSE b

\* the first code of the list that is a key of code_to_symbol, or None
RECURSIVE FirstKnownCode(_, _)
FirstKnownCode(codes, code_to_symbol) ==
  IF codes = <<>> THEN None
  ELSE IF Has(code_to_symbol, codes[1]) THEN Get(code_to_symbol, codes[1])
  ELSE FirstKnownCode(Tail(codes), code_to_symbol)

\* lines 390-404: the <<score, symbol>> candidates, in the order of the items
RECURSIVE ScoreCandidates(_, _, _, _)
ScoreCandidates(items, i, compact_desc, desc_tokens) ==
  IF i > Len(items) THEN <<>>
  ELSE LET key     == items[i][1]
           symbol  == items[i][2]
           rest    == ScoreCandidates(items, i + 1, compact_desc, desc_tokens)
           overlap == Cardinality(desc_tokens \cap token_key_set(key))
       IN  IF key = <<>> THEN rest
           ELSE IF compact_desc # <<>> /\ (Contains(key, compact_desc) \/ Contains(compact_desc, key))
                THEN <<<<Min(Len(key), Len(compact_desc)), symbol>>>> \o rest
           ELSE IF overlap >= 2
                THEN <<<<overlap * 100 + Min(Len(key), Len(compact_desc)), symbol>>>> \o rest
           ELSE rest

\* the sort as it would be if it put the later of two equal scores first
RECURSIVE SortByScoreDesc_later(_)
SortByScoreDesc_later(cs) ==
  IF cs = <<>> THEN <<>>
  ELSE LET sorted == SortByScoreDesc_later(Tail(cs))
           k      == Cardinality({j \in 1..Len(sorted) : sorted[j][1] >= cs[1][1]})
       IN  SubSeq(sorted, 1, k) \o <<cs[1]>> \o SubSeq(sorted, k + 1, Len(sorted))

\* candidates.sort(key=lambda x: x[0], reverse=True): stable, highest first
RECURSIVE SortByScoreDesc(_)
SortByScoreDesc(cs) ==
  IF cs = <<>> THEN <<>>
  ELSE LET sorted == SortByScoreDesc(Tail(cs))
           k      == Cardinality({j \in 1..Len(sorted) : sorted[j][1] > cs[1][1]})
       IN  SubSeq(sorted, 1, k) \o <<cs[1]>> \o SubSeq(sorted, k + 1, Len(sorted))

\* the issuer fallback as it would be if FIDELITY were looked for first
IssuerFallback_fidelity(upper_desc) ==
  LET codes == ParenCodes(upper_desc)
  IN  IF codes # <<>> /\ Contains(upper_desc, <<"F","I","D","E","L","I","T","Y">>)
      THEN <<"F","I","D">> \o codes[1]
      ELSE IF codes # <<>> /\ Contains(upper_desc, <<"R","B","C">>)
      THEN <<"R","B","F">> \o codes[1]
      ELSE None

\* lines 406-413: the issuer fallback
IssuerFallback(upper_desc) ==
  LET codes == ParenCodes(upper_desc)
  IN  IF codes # <<>> /\ Contains(upper_desc, <<"R","B","C">>)
      THEN <<"R","B","F">> \o codes[1]
      ELSE IF codes # <<>> /\ Contains(upper_desc, <<"F","I","D","E","L","I","T","Y">>)
      THEN <<"F","I","D">> \o codes[1]
      ELSE None

\* resolve_rbc_symbol as it would be if the exact description match came
\* before the numeric codes
resolve_rbc_symbol_exact_first(desc, compact_to_symbol, code_to_symbol) ==
  LET desc_text    == normalize_space(desc)
      upper_desc   == ToUpper(desc_text)
      compact_desc == compact_key(upper_desc)
      by_paren     == FirstKnownCode(ParenCodes(upper_desc), code_to_symbol)
      by_run       == FirstKnownCode(DigitRuns(upper_desc), code_to_symbol)
      candidates   == ScoreCandidates(compact_to_symbol, 1, compact_desc,
                                      token_key_set(desc_text))
  IN  IF desc_text = <<>> THEN None
      ELSE IF Has(compact_to_symbol, compact_desc) THEN Get(compact_to_symbol, compact_desc)
      ELSE IF by_paren # None THEN by_paren
      ELSE IF by_run # None THEN by_run
      ELSE IF candidates = <<>> THEN IssuerFallback(upper_desc)
      ELSE SortByScoreDesc(candidates)[1][2]

\* resolve_rbc_symbol: the symbol, or None
resolve_rbc_symbol(desc, compact_to_symbol, code_to_symbol) ==
  LET desc_text    == normalize_space(desc)
      upper_desc   == ToUpper(desc_text)
      compact_desc == compact_key(upper_desc)
      by_paren     == FirstKnownCode(ParenCodes(upper_desc), code_to_symbol)
      by_run       == FirstKnownCode(DigitRuns(upper_desc), code_to_symbol)
      candidates   == ScoreCandidates(compact_to_symbol, 1, compact_desc,
                                      token_key_set(desc_text))
  IN  IF desc_text = <<>> THEN None
      ELSE IF by_paren # None THEN by_paren
      ELSE IF by_run # None THEN by_run
      ELSE IF Has(compact_to_symbol, compact_desc) THEN Get(compact_to_symbol, compact_desc)
      ELSE IF candidates = <<>> THEN IssuerFallback(upper_desc)
      ELSE SortByScoreDesc(candidates)[1][2]

\* ------------------------------------------------------------ activity walk
\* The walk state w is [current, in_activity, trades, unresolved]; current is
\* None or Some of [date, side, currency, desc_parts, amount], amount is None
\* or Some of the float.  cx, the context of one statement, is
\* [statement_year, statement_month, usd_to_cad, compact_to_symbol,
\*  code_to_symbol].

\* f"{year:04d}-{month_num:02d}-{day:02d}"
IsoDate(year, month_num, day) ==
  FormatInt(year, 4) \o <<"-">> \o FormatInt(month_num, 2) \o <<"-">> \o FormatInt(day, 2)

\* " ".join(parts)
RECURSIVE JoinParts(_)
JoinParts(parts) ==
  IF parts = <<>> THEN <<>>
  ELSE IF Len(parts) = 1 THEN parts[1]
  ELSE parts[1] \o <<" ">> \o JoinParts(Tail(parts))

\* the description flush_current resolves
DescText(cur) == normalize_space(JoinParts(cur.desc_parts))

\* flush_current as it would be if a candidate without a symbol were dropped
\* without a record
flush_current_drop(w, cx) ==
  IF w.current = None THEN w
  ELSE LET cur       == Val(w.current)
           desc_text == DescText(cur)
           symbol    == resolve_rbc_symbol(desc_text, cx.compact_to_symbol, cx.code_to_symbol)
           amount    == Val(cur.amount)
           trade_amount == IF cur.currency = "USD" THEN Mul(amount, cx.usd_to_cad) ELSE amount
       IN  IF cur.amount = None \/ symbol = None
           THEN [w EXCEPT !.current = None]
           ELSE [w EXCEPT !.trades = Append(@, <<cur.date, cur.side, symbol, Abs(trade_amount)>>),
                          !.current = None]

\* flush_current as it would be if the unresolved branch forgot to clear the
\* candidate
flush_current_keeps(w, cx) ==
  IF w.current = None THEN w
  ELSE LET cur       == Val(w.current)
           desc_text == DescText(cur)
           symbol    == resolve_rbc_symbol(desc_text, cx.compact_to_symbol, cx.code_to_symbol)
           amount    == Val(cur.amount)
           trade_amount == IF cur.currency = "USD" THEN Mul(amount, cx.usd_to_cad) ELSE amount
       IN  IF cur.amount = None
           THEN [w EXCEPT !.current = None]
           ELSE IF symbol = None
           THEN [w EXCEPT !.unresolved = Append(@, <<cur.date, cur.side, desc_text, amount>>)]
           ELSE [w EXCEPT !.trades = Append(@, <<cur.date, cur.side, symbol, Abs(trade_amount)>>),
                          !.current = None]

\* flush_current as it would be without the test of the symbol
flush_current_nosym(w, cx) ==
  IF w.current = None THEN w
  ELSE LET cur       == Val(w.current)
           desc_text == DescText(cur)
           symbol    == resolve_rbc_symbol(desc_text, cx.compact_to_symbol, cx.code_to_symbol)
           amount    == Val(cur.amount)
           trade_amount == IF cur.currency = "USD" THEN Mul(amount, cx.usd_to_cad) ELSE amount
       IN  IF cur.amount = None
           THEN [w EXCEPT !.current = None]
           ELSE [w EXCEPT !.trades = Append(@, <<cur.date, cur.side, symbol, Abs(trade_amount)>>),
                          !.current = None]

\* flush_current
flush_current(w, cx) ==
  IF w.current = None THEN w
  ELSE LET cur       == Val(w.current)
           desc_text == DescText(cur)
           symbol    == resolve_rbc_symbol(desc_text, cx.compact_to_symbol, cx.code_to_symbol)
           amount    == Val(cur.amount)
           trade_amount == IF cur.currency = "USD" THEN Mul(amount, cx.usd_to_cad) ELSE amount
       IN  IF cur.amount = None
           THEN [w EXCEPT !.current = None]
           ELSE IF symbol = None
           THEN [w EXCEPT !.unresolved = Append(@, <<cur.date, cur.side, desc_text, amount>>),
                          !.current = None]
           ELSE [w EXCEPT !.trades = Append(@, <<cur.date, cur.side, symbol, Abs(trade_amount)>>),
                          !.current = None]

FootnotesMark == <<"F","O","O","T","N","O","T","E","S">>
ClosingMark   == <<"C","l","o","s","i","n","g"," ","B","a","l","a","n","c","e">>
OpeningMark   == <<"O","p","e","n","i","n","g"," ","B","a","l","a","n","c","e">>
HeaderLines ==
  {<<"P","R","I","C","E">>,
   <<"D","A","T","E"," ","A","C","T","I","V","I","T","Y"," ","D","E","S","C","R","I","P","T","I","O","N">>,
   <<"Q","U","A","N","T","I","T","Y"," ","\\","R","A","T","E"," ","D","E","B","I","T"," ","C","R","E","D","I","T">>}

\* what the tests and patterns of lines 456-549 find in one raw line
Classify(raw) ==
  LET line == normalize_space(raw)
  IN  [line      |-> line,
       footnotes |-> Contains(line, FootnotesMark),
       activity  |-> Contains(line, ActivityMark),
       closing   |-> StartsWith(line, ClosingMark),
       m_activity|-> RBC_ACTIVITY_START_RE(line),
       header    |-> StartsWith(line, OpeningMark) \/ line \in HeaderLines,
       m_amt     |-> RBC_AMOUNT_LINE_RE(line),
       m_inline  |-> RBC_INLINE_AMOUNT_RE(line),
       ignore    |-> RBC_IGNORE_DESCRIPTION_LINE_RE(ToUpper(line))]

\* StartLine as it would be if every December line got the year before
StartLine_dec(w, m, page_currency, cx) ==
  LET activity  == ToUpper(m.activity)
      flushed   == flush_current(w, cx)
      day       == ParseInt(m.day_text)
      month_num == month_token_to_number(m.mon)
      year      == IF month_num = Some(12)
                   THEN cx.statement_year - 1
                   ELSE cx.statement_year
      side      == IF activity = <<"B","O","U","G","H","T">> THEN "BUY" ELSE "SELL"
      rest      == normalize_space(m.rest)
      m_inline  == RBC_INLINE_AMOUNT_RE(rest)
      desc      == IF m_inline # None THEN normalize_space(Val(m_inline).g1) ELSE rest
      amount    == IF m_inline # None THEN parse_number(Val(m_inline).g4) ELSE None
  IN  IF activity \notin {<<"B","O","U","G","H","T">>, <<"S","O","L","D">>}
      THEN IF w.current # None /\ Val(w.current).amount # None
           THEN [flushed EXCEPT !.current = None]
           ELSE [w EXCEPT !.current = None]
      ELSE IF month_num = None
      THEN [flushed EXCEPT !.current = None]
      ELSE [flushed EXCEPT !.current =
              Some([date       |-> IsoDate(year, Val(month_num), day),
                    side       |-> side,
                    currency   |-> page_currency,
                    desc_parts |-> IF desc # <<>> THEN <<desc>> ELSE <<>>,
                    amount     |-> amount])]

\* the activity-start line as it would be if a verb other than BOUGHT and
\* SOLD were skipped like a header line
StartLine_ignore(w, m, page_currency, cx) ==
  LET activity  == ToUpper(m.activity)
      flushed   == flush_current(w, cx)
      day       == ParseInt(m.day_text)
      month_num == month_token_to_number(m.mon)
      year      == IF cx.statement_month = 1 /\ month_num = Some(12)
                   THEN cx.statement_year - 1
                   ELSE cx.statement_year
      side      == IF activity = <<"B","O","U","G","H","T">> THEN "BUY" ELSE "SELL"
      rest      == normalize_space(m.rest)
      m_inline  == RBC_INLINE_AMOUNT_RE(rest)
      desc      == IF m_inline # None THEN normalize_space(Val(m_inline).g1) ELSE rest
      amount    == IF m_inline # None THEN parse_number(Val(m_inline).g4) ELSE None
  IN  IF activity \notin {<<"B","O","U","G","H","T">>, <<"S","O","L","D">>}
      THEN w
      ELSE IF month_num = None
      THEN [flushed EXCEPT !.current = None]
      ELSE [flushed EXCEPT !.current =
              Some([date       |-> IsoDate(year, Val(month_num), day),
                    side       |-> side,
                    currency   |-> page_currency,
                    desc_parts |-> IF desc # <<>> THEN <<desc>> ELSE <<>>,
                    amount     |-> amount])]

\* lines 484-523: an activity-start line, m its groups
StartLine(w, m, page_currency, cx) ==
  LET activity  == ToUpper(m.activity)
      flushed   == flush_current(w, cx)
      day       == ParseInt(m.day_text)
      month_num == month_token_to_number(m.mon)
      year      == IF cx.statement_month = 1 /\ month_num = Some(12)
                   THEN cx.statement_year - 1
                   ELSE cx.statement_year
      side      == IF activity = <<"B","O","U","G","H","T">> THEN "BUY" ELSE "SELL"
      rest      == normalize_space(m.rest)
      m_inline  == RBC_INLINE_AMOUNT_RE(rest)
      desc      == IF m_inline # None THEN normalize_space(Val(m_inline).g1) ELSE rest
      amount    == IF m_inline # None THEN parse_number(Val(m_inline).g4) ELSE None
  IN  IF activity \notin {<<"B","O","U","G","H","T">>, <<"S","O","L","D">>}
      THEN IF w.current # None /\ Val(w.current).amount # None
           THEN [flushed EXCEPT !.current = None]
           ELSE [w EXCEPT !.current = None]
      ELSE IF month_num = None
      THEN [flushed EXCEPT !.current = None]
      ELSE [flushed EXCEPT !.current =
              Some([date       |-> IsoDate(year, Val(month_num), day),
                    side       |-> side,
                    currency   |-> page_currency,
                    desc_parts |-> IF desc # <<>> THEN <<desc>> ELSE <<>>,
                    amount     |-> amount])]

\* lines 533-552: a line that is no marker, no activity start and no header
DetailLine(w, c) ==
  LET cur == Val(w.current)
      desc_line == normalize_space(Val(c.m_inline).g1)
  IN  IF w.current = None THEN w
      ELSE IF c.m_amt # None /\ cur.amount = None
      THEN [w EXCEPT !.current = Some([cur EXCEPT !.amount = parse_number(c.m_amt[3])])]
      ELSE IF c.m_inline # None /\ cur.amount = None
      THEN [w EXCEPT !.current =
              Some([cur EXCEPT !.desc_parts = IF desc_line # <<>> THEN Append(@, desc_line) ELSE @,
                               !.amount = parse_number(Val(c.m_inline).g4)])]
      ELSE IF c.ignore THEN w
      ELSE [w EXCEPT !.current = Some([cur EXCEPT !.desc_parts = Append(@, c.line)])]

\* the body of the loop as it would be if a section marker dropped the live
\* candidate instead of flushing it
WalkStep_drop(w, c, page_currency, cx) ==
  IF c.line = <<>> THEN w
  ELSE IF c.footnotes THEN [w EXCEPT !.current = None, !.in_activity = FALSE]
  ELSE IF c.activity THEN [w EXCEPT !.current = None, !.in_activity = TRUE]
  ELSE IF ~w.in_activity THEN w
  ELSE IF c.closing THEN [w EXCEPT !.current = None, !.in_activity = FALSE]
  ELSE IF c.m_activity # None THEN StartLine(w, Val(c.m_activity), page_currency, cx)
  ELSE IF c.header THEN w
  ELSE DetailLine(w, c)

\* the body of the loop as it would be if the live candidate took the
\* currency of the page of every line read
WalkStep_restamp(w, c, page_currency, cx) ==
  LET v == IF w.current = None THEN w
           ELSE [w EXCEPT !.current = Some([Val(w.current) EXCEPT !.currency = page_currency])]
  IN  IF c.line = <<>> THEN v
      ELSE IF c.footnotes THEN [flush_current(v, cx) EXCEPT !.in_activity = FALSE]
      ELSE IF c.activity THEN [flush_current(v, cx) EXCEPT !.in_activity = TRUE]
      ELSE IF ~v.in_activity THEN v
      ELSE IF c.closing THEN [flush_current(v, cx) EXCEPT !.in_activity = FALSE]
      ELSE IF c.m_activity # None THEN StartLine(v, Val(c.m_activity), page_currency, cx)
      ELSE IF c.header THEN v
      ELSE DetailLine(v, c)

\* the body of the loop as it would be without the test of line 472
WalkStep_eager(w, c, page_currency, cx) ==
  IF c.line = <<>> THEN w
  ELSE IF c.footnotes THEN [flush_current(w, cx) EXCEPT !.in_activity = FALSE]
  ELSE IF c.activity THEN [flush_current(w, cx) EXCEPT !.in_activity = TRUE]
  ELSE IF c.closing THEN [flush_current(w, cx) EXCEPT !.in_activity = FALSE]
  ELSE IF c.m_activity # None THEN StartLine(w, Val(c.m_activity), page_currency, cx)
  ELSE IF c.header THEN w
  ELSE DetailLine(w, c)

\* lines 459-552: the body of the loop over the lines, c the classified line
WalkStep(w, c, page_currency, cx) ==
  IF c.line = <<>> THEN w
  ELSE IF c.footnotes THEN [flush_current(w, cx) EXCEPT !.in_activity = FALSE]
  ELSE IF c.activity THEN [flush_current(w, cx) EXCEPT !.in_activity = TRUE]
  ELSE IF ~w.in_activity THEN w
  ELSE IF c.closing THEN [flush_current(w, cx) EXCEPT !.in_activity = FALSE]
  ELSE IF c.m_activity # None THEN StartLine(w, Val(c.m_activity), page_currency, cx)
  ELSE IF c.header THEN w
  ELSE DetailLine(w, c)

\* lines 484-516: the line is a BOUGHT/SOLD activity start the loop gets to,
\* so that line 516 makes a candidate of it
StartsCandidate(w, c) ==
  /\ c.line # <<>> /\ ~c.footnotes /\ ~c.activity /\ w.in_activity /\ ~c.closing
  /\ c.m_activity # None
  /\ ToUpper(Val(c.m_activity).activity) \in {<<"B","O","U","G","H","T">>, <<"S","O","L","D">>}
  /\ month_token_to_number(Val(c.m_activity).mon) # None

\* lines 454-552 for one page, from line i on.  in_activity is a boolean at
\* every line (lines 428, 464, 469, 477); the test of it has the state of
\* the walk evaluated line by line, so that a long page is no deep evaluation.
RECURSIVE WalkLines(_, _, _, _, _)
WalkLines(w, page, i, page_currency, cx) ==
  IF i > Len(page) \/ w.in_activity \notin BOOLEAN THEN w
  ELSE WalkLines(WalkStep(w, Classify(page[i]), page_currency, cx), page, i + 1, page_currency, cx)

\* lines 454-552 for the pages, the state of the walk evaluated page by page
RECURSIVE WalkPages(_, _, _)
WalkPages(w, pages, cx) ==
  IF pages = <<>> \/ w.in_activity \notin BOOLEAN THEN w
  ELSE WalkPages(WalkLines(w, pages[1], 1, PageCurrency(pages[1]), cx), Tail(pages), cx)

\* lines 424-428
WalkStart == [current |-> None, in_activity |-> FALSE, trades |-> <<>>, unresolved |-> <<>>]

\* lines 419-423: the context of the statement, None when the name has no date
StatementContext(name, pages, tb) ==
  LET ym == extract_statement_year_month(name)
  IN  IF ym = None THEN None
      ELSE Some([statement_year    |-> Val(ym)[1],
                 statement_month   |-> Val(ym)[2],
                 usd_to_cad        |-> statement_usd_to_cad_rate(pages),
                 compact_to_symbol |-> tb.compact_to_symbol,
                 code_to_symbol    |-> tb.code_to_symbol])

\* parse_rbc_statement_trades, the walk state at return (trades is returned)
parse_rbc_statement_trades(name, pages, tb) ==
  LET cx == StatementContext(name, pages, tb)
  IN  IF cx = None THEN WalkStart
      ELSE flush_current(WalkPages(WalkStart, pages, Val(cx)), Val(cx))

\* ------------------------------------------------------------------ inputs
\* the raw lines the pages of the walk are made of
\* 'Account Activity'
LnActivity == <<"A","c","c","o","u","n","t"," ","A","c","t","i","v","i","t","y">>
\* 'FOOTNOTES'
LnFootnotes == <<"F","O","O","T","N","O","T","E","S">>
\* 'Closing Balance 5.00'
LnClosing == <<"C","l","o","s","i","n","g"," ","B","a","l","a","n","c","e"," ","5",".","0","0">>
\* 'JAN.15 BOUGHT XYZ FUND (12345) 100.000 10.00 1,000.01-'
LnBoughtInline == <<"J","A","N",".","1","5"," ","B","O","U","G","H","T"," ","X","Y","Z"," ","F","U","N","D"," ","(","1","2","3","4","5",")"," ","1","0","0",".","0","0","0"," ","1","0",".","0","0"," ","1",",","0","0","0",".","0","1","-">>
\* 'DEC 29 SOLD ABC INC'
LnSoldDec == <<"D","E","C"," ","2","9"," ","S","O","L","D"," ","A","B","C"," ","I","N","C">>
\* 'FEB 3 BOUGHT 7 8 9.50-'
LnBoughtBare == <<"F","E","B"," ","3"," ","B","O","U","G","H","T"," ","7"," ","8"," ","9",".","5","0","-">>
\* 'JAN 20 DIVIDEND ABC INC'
LnDividend == <<"J","A","N"," ","2","0"," ","D","I","V","I","D","E","N","D"," ","A","B","C"," ","I","N","C">>
\* '50 20.00 1,000.00'
LnTriplet == <<"5","0"," ","2","0",".","0","0"," ","1",",","0","0","0",".","0","0">>
\* 'ABC INC 5 4 20.00-'
LnInline == <<"A","B","C"," ","I","N","C"," ","5"," ","4"," ","2","0",".","0","0","-">>
\* 'MYSTERY CO'
LnMystery == <<"M","Y","S","T","E","R","Y"," ","C","O">>
\* 'UNSOLICITED'
LnNoise == <<"U","N","S","O","L","I","C","I","T","E","D">>
\* 'MAR 2 SOLD MYSTERY CO 1 2 3.00'
LnSoldMystery == <<"M","A","R"," ","2"," ","S","O","L","D"," ","M","Y","S","T","E","R","Y"," ","C","O"," ","1"," ","2"," ","3",".","0","0">>
\* 'Opening Balance 1.00'
LnOpening == <<"O","p","e","n","i","n","g"," ","B","a","l","a","n","c","e"," ","1",".","0","0">>
\* ''
LnEmpty == <<>>
\* 'FEB 31 SOLD ABC INC 5 4 20.00-'
LnSoldFeb31 == <<"F","E","B"," ","3","1"," ","S","O","L","D"," ","A","B","C"," ","I","N","C"," ","5"," ","4"," ","2","0",".","0","0","-">>
\* 'FOOTNOTES Account Activity'
LnFootActivity == <<"F","O","O","T","N","O","T","E","S"," ","A","c","c","o","u","n","t"," ","A","c","t","i","v","i","t","y">>
Lines ==
  <<LnActivity, LnFootnotes, LnClosing, LnBoughtInline,
    LnSoldDec, LnBoughtBare, LnDividend, LnTriplet,
    LnInline, LnMystery, LnNoise, LnSoldMystery,
    LnOpening, LnEmpty, LnSoldFeb31, LnFootActivity>>

\* the header line of a page of a U.S. dollar account
\* 'Statement (U.S.$)'
LnUsdHeader == <<"S","t","a","t","e","m","e","n","t"," ","(","U",".","S",".","$",")">>

\* every line of the activity pages, by number; the header line is the last
AllLines  == Lines \o <<LnUsdHeader>>
HeaderNo  == Len(Lines) + 1
\* what the patterns find in each of them
RECURSIVE ClassifyAll(_)
ClassifyAll(ls) ==
  IF ls = <<>> THEN <<>> ELSE <<Classify(ls[1])>> \o ClassifyAll(Tail(ls))

\* statement file names
\* 'S2023-01-10.pdf'
NameJan == <<"S","2","0","2","3","-","0","1","-","1","0",".","p","d","f">>
\* 'S2023-02-28.pdf'
NameFeb == <<"S","2","0","2","3","-","0","2","-","2","8",".","p","d","f">>
\* 'statement.pdf'
NameNoDate == <<"s","t","a","t","e","m","e","n","t",".","p","d","f">>
Names == {NameJan, NameFeb, NameNoDate}

\* lines of the pages that come before the activity pages
\* 'Asset Review'
LnAssetReview == <<"A","s","s","e","t"," ","R","e","v","i","e","w">>
\* 'ABC INC ABC 5 4.00 3.00 $15.00'
LnRowAbc == <<"A","B","C"," ","I","N","C"," ","A","B","C"," ","5"," ","4",".","0","0"," ","3",".","0","0"," ","$","1","5",".","0","0">>
\* 'XYZ FUND (12345) XYZF 10 1.00 2.00 $20.00'
LnRowXyz == <<"X","Y","Z"," ","F","U","N","D"," ","(","1","2","3","4","5",")"," ","X","Y","Z","F"," ","1","0"," ","1",".","0","0"," ","2",".","0","0"," ","$","2","0",".","0","0">>
\* 'Exchange rate 1USD = 1.25 CAD'
LnFx125 == <<"E","x","c","h","a","n","g","e"," ","r","a","t","e"," ","1","U","S","D"," ","="," ","1",".","2","5"," ","C","A","D">>
\* 'Exchange rate 1USD = 1.3456 CAD'
LnFx13456 == <<"E","x","c","h","a","n","g","e"," ","r","a","t","e"," ","1","U","S","D"," ","="," ","1",".","3","4","5","6"," ","C","A","D">>
\* 'Exchange rate 1USD = 1.2.3 CAD'
LnFxBad == <<"E","x","c","h","a","n","g","e"," ","r","a","t","e"," ","1","U","S","D"," ","="," ","1",".","2",".","3"," ","C","A","D">>

\* the front pages of a statement: none; an asset review; an exchange rate and
\* an asset review, a second rate on the next page; a rate that is no number,
\* a good one on the next page
Fronts ==
  {<<>>,
   <<<<LnAssetReview, LnRowAbc, LnRowXyz>>>>,
   <<<<LnFx125, LnAssetReview, LnRowAbc, LnRowXyz>>, <<LnFx13456>>>>,
   <<<<LnFxBad>>, <<LnFx13456, LnAssetReview, LnRowAbc>>>>}

\* ------------------------------------------------------------------- state
VARIABLES
  pc,                 \* where the run is
  path,               \* the name of the statement file
  pages,              \* the front pages of the statement
  line,               \* the number in AllLines of the line read last, 0 before
  line_class,         \* Classify of every line of AllLines, computed once
  nread,              \* how many lines of the activity pages were read
  started,            \* how many of them started a candidate (line 516)
  statement_year, statement_month, usd_to_cad,
  compact_to_symbol, code_to_symbol,
  page_currency, in_activity, current, trades, unresolved,
  files,              \* parse_rbc: the statement files of the run, in path order
  file_no,            \* parse_rbc: the number of the file the loop is at
  asset_rows,         \* resolver: the asset rows the alias maps were built from
  description,        \* resolver: the description resolve_rbc_symbol was called with
  resolved,           \* resolver: what it returned
  text,               \* parse_number: the text it was called with
  number              \* parse_number: what it returned

vars == <<pc, path, pages, line, line_class, nread, started, statement_year, statement_month,
          usd_to_cad, compact_to_symbol, code_to_symbol,
          page_currency, in_activity, current, trades, unresolved, files, file_no,
          asset_rows, description, resolved, text, number>>

numVars == <<text, number>>
resVars == <<asset_rows, description, resolved, numVars>>

\* the walk state and the statement context, as the operators take them
W  == [current |-> current, in_activity |-> in_activity,
       trades |-> trades, unresolved |-> unresolved]
CX == [statement_year |-> statement_year, statement_month |-> statement_month,
       usd_to_cad |-> usd_to_cad,
       compact_to_symbol |-> compact_to_symbol, code_to_symbol |-> code_to_symbol]

SetWalk(n) ==
  /\ current' = n.current
  /\ in_activity' = n.in_activity
  /\ trades' = n.trades
  /\ unresolved' = n.unresolved

\* ---------------------------------- parse_rbc_statement_trades, line by line
\* The statement is its front pages followed by activity pages that are read
\* one line at a time.  The lines of the activity pages hold no exchange rate
\* and no "Asset Review", and "Statement (U.S.$)" only as the first line of a
\* page, so the rate and the alias maps of the whole statement are those of
\* the front pages, and the currency of a page is known at its first line.
Init ==
  /\ pc = "start"
  /\ path \in Names
  /\ pages \in Fronts
  /\ line = 0
  /\ line_class = ClassifyAll(AllLines)
  /\ nread = 0
  /\ started = 0
  /\ statement_year = 0
  /\ statement_month = 0
  /\ usd_to_cad = DefaultRate
  /\ LET tb == collect_rbc_asset_aliases(pages, EmptyTables)
     IN  /\ compact_to_symbol = tb.compact_to_symbol
         /\ code_to_symbol = tb.code_to_symbol
  /\ page_currency = "CAD"
  /\ in_activity = FALSE
  /\ current = None
  /\ trades = <<>>
  /\ unresolved = <<>>
  /\ files = <<>>
  /\ file_no = 0
  /\ asset_rows = <<>> /\ description = <<>> /\ resolved = None
  /\ text = <<>> /\ number = None

\* lines 419-428, and the walk of the front pages
Begin ==
  /\ pc = "start"
  /\ LET cx == StatementContext(path, pages,
                 [compact_to_symbol |-> compact_to_symbol, code_to_symbol |-> code_to_symbol])
     IN  IF cx = None
         THEN /\ pc' = "done"
              /\ UNCHANGED <<statement_year, statement_month, usd_to_cad,
                             current, in_activity, trades, unresolved>>
         ELSE /\ pc' = "pages"
              /\ statement_year' = Val(cx).statement_year
              /\ statement_month' = Val(cx).statement_month
              /\ usd_to_cad' = Val(cx).usd_to_cad
              /\ SetWalk(WalkPages(WalkStart, pages, Val(cx)))
  /\ UNCHANGED <<path, pages, line, line_class, nread, started, compact_to_symbol,
                 code_to_symbol, page_currency, files, file_no, resVars>>

\* lines 454-456: the next page; a page of a U.S. dollar account starts with
\* its header line, which the loop over the lines reads first
NextPage(usd) ==
  /\ pc \in {"pages", "lines"}
  /\ nread < MaxLines
  /\ pc' = "lines"
  /\ IF usd
     THEN /\ page_currency' = PageCurrency(<<LnUsdHeader>>)
          /\ line' = HeaderNo
          /\ nread' = nread + 1
          /\ started' = started + (IF StartsCandidate(W, line_class[HeaderNo]) THEN 1 ELSE 0)
          /\ SetWalk(WalkStep(W, line_class[HeaderNo], PageCurrency(<<LnUsdHeader>>), CX))
     ELSE /\ page_currency' = PageCurrency(<<>>)
          /\ UNCHANGED <<line, nread, started, current, in_activity, trades, unresolved>>
  /\ UNCHANGED <<path, pages, line_class, statement_year, statement_month, usd_to_cad,
                 compact_to_symbol, code_to_symbol, files, file_no, resVars>>

\* lines 458-552: one more line of the page
ReadLine(i) ==
  /\ pc = "lines"
  /\ nread < MaxLines
  /\ line' = i
  /\ nread' = nread + 1
  /\ started' = started + (IF StartsCandidate(W, line_class[i]) THEN 1 ELSE 0)
  /\ SetWalk(WalkStep(W, line_class[i], page_currency, CX))
  /\ UNCHANGED <<pc, path, pages, line_class, statement_year, statement_month, usd_to_cad,
                 compact_to_symbol, code_to_symbol, page_currency, files, file_no, resVars>>

\* the end of the pages as it would be without the flush of line 554
Finish_noflush ==
  /\ pc \in {"pages", "lines"}
  /\ pc' = "done"
  /\ UNCHANGED <<current, in_activity, trades, unresolved>>
  /\ UNCHANGED <<path, pages, line, line_class, nread, started, statement_year, statement_month,
                 usd_to_cad, compact_to_symbol, code_to_symbol, page_currency,
                 files, file_no, resVars>>

\* lines 554-559: the end of the pages
Finish ==
  /\ pc \in {"pages", "lines"}
  /\ pc' = "done"
  /\ SetWalk(flush_current(W, CX))
  /\ UNCHANGED <<path, pages, line, line_class, nread, started, statement_year, statement_month,
                 usd_to_cad, compact_to_symbol, code_to_symbol, page_currency,
                 files, file_no, resVars>>

Next ==
  \/ Begin
  \/ \E usd \in BOOLEAN : NextPage(usd)
  \/ \E i \in 1..Len(Lines) : ReadLine(i)
  \/ Finish

Spec == Init /\ [][Next]_vars

\* ------------------------------------------------------ parse_rbc, inputs
\* 'S2022-12-31.pdf'
NameDec22 == <<"S","2","0","2","2","-","1","2","-","3","1",".","p","d","f">>
\* 'S2023-03-31.pdf'
NameMar == <<"S","2","0","2","3","-","0","3","-","3","1",".","p","d","f">>
\* 'S2023-04-30.pdf'
NameApr == <<"S","2","0","2","3","-","0","4","-","3","0",".","p","d","f">>
\* 'S2023-05-31.pdf'
NameMay == <<"S","2","0","2","3","-","0","5","-","3","1",".","p","d","f">>
\* 'statement2023-06-30.pdf'
NameJun == <<"s","t","a","t","e","m","e","n","t","2","0","2","3","-","0","6","-","3","0",".","p","d","f">>
\* 'XYZ FUND (12345) OLDX 1 1.00 1.00 $1.00'
LnRowOld == <<"X","Y","Z"," ","F","U","N","D"," ","(","1","2","3","4","5",")"," ","O","L","D","X"," ","1"," ","1",".","0","0"," ","1",".","0","0"," ","$","1",".","0","0">>
\* 'MYSTERY CO MYST 1 1.00 1.00 $1.00'
LnRowMyst == <<"M","Y","S","T","E","R","Y"," ","C","O"," ","M","Y","S","T"," ","1"," ","1",".","0","0"," ","1",".","0","0"," ","$","1",".","0","0">>
\* 'MYSTERY CO MYS 2 1.00 1.00 $2.00'
LnRowMys == <<"M","Y","S","T","E","R","Y"," ","C","O"," ","M","Y","S"," ","2"," ","1",".","0","0"," ","1",".","0","0"," ","$","2",".","0","0">>

\* the statement files of the catalogue, in the order sorted() gives their
\* paths; pages is what pages_by_file holds for the file
Statements ==
  <<[name |-> NameDec22,  pages |-> <<<<LnAssetReview, LnRowOld>>>>],
    [name |-> NameJan,    pages |-> <<<<LnActivity, LnBoughtInline, LnClosing>>,
                                      <<LnAssetReview, LnRowXyz>>>>],
    [name |-> NameFeb,    pages |-> <<<<LnAssetReview, LnRowAbc>>,
                                      <<LnActivity, LnSoldDec, LnTriplet>>>>],
    [name |-> NameMar,    pages |-> <<<<LnActivity, LnSoldMystery>>>>],
    [name |-> NameApr,    pages |-> <<<<LnAssetReview, LnRowMyst>>>>],
    [name |-> NameMay,    pages |-> <<>>],
    [name |-> NameNoDate, pages |-> <<<<LnActivity, LnBoughtInline>>,
                                      <<LnAssetReview, LnRowMys>>>>],
    [name |-> NameJun,    pages |-> <<<<LnAssetReview, LnRowAbc>>,
                                      <<LnRowMys>>>>]>>

\* the runs: at most MaxFiles files of the catalogue, in path order
FileRuns ==
  LET picks == UNION {[1..n -> 1..Len(Statements)] : n \in 0..MaxFiles}
  IN  {[k \in 1..Len(s) |-> Statements[s[k]]] :
         s \in {t \in picks : \A a, b \in 1..Len(t) : a < b => t[a] < t[b]}}

\* --------------------------------------------------------------- parse_rbc
\* lines 561-563: pdf_paths is listed
InitRbc ==
  /\ pc = "list"
  /\ files \in FileRuns
  /\ file_no = 0
  /\ compact_to_symbol = EmptyTables.compact_to_symbol
  /\ code_to_symbol = EmptyTables.code_to_symbol
  /\ trades = <<>>
  /\ path = <<>> /\ pages = <<>> /\ line = 0 /\ line_class = <<>> /\ nread = 0
  /\ started = 0
  /\ statement_year = 0 /\ statement_month = 0 /\ usd_to_cad = DefaultRate
  /\ page_currency = "CAD" /\ in_activity = FALSE /\ current = None
  /\ unresolved = <<>>
  /\ asset_rows = <<>> /\ description = <<>> /\ resolved = None
  /\ text = <<>> /\ number = None

walkVars == <<path, pages, line, line_class, nread, started, statement_year, statement_month,
              usd_to_cad, page_currency, in_activity, current, unresolved, resVars>>

\* lines 562-563: no statement file, return []
NoStatements ==
  /\ pc = "list" /\ files = <<>>
  /\ pc' = "done"
  /\ UNCHANGED <<files, file_no, compact_to_symbol, code_to_symbol, trades, walkVars>>

\* lines 565-566 and 572-573: the pages of all the files are extracted
ExtractPages ==
  /\ pc = "list" /\ files # <<>>
  /\ pc' = "aliases"
  /\ file_no' = 1
  /\ UNCHANGED <<files, compact_to_symbol, code_to_symbol, trades, walkVars>>

\* ExtractFails as it would be without the except clause of line 567
ExtractFails_escapes ==
  /\ pc = "list" /\ files # <<>>
  /\ pc' = "raised"
  /\ UNCHANGED <<files, file_no, compact_to_symbol, code_to_symbol, trades, walkVars>>

\* lines 567-569: extract_pdf_pages_with_swift raises, return []
ExtractFails ==
  /\ pc = "list" /\ files # <<>>
  /\ pc' = "done"
  /\ trades' = <<>>
  /\ UNCHANGED <<files, file_no, compact_to_symbol, code_to_symbol, walkVars>>

\* lines 576-580: one turn of the loop that builds the alias maps; after the
\* last file the loop over the trades starts
CollectFile ==
  /\ pc = "aliases"
  /\ LET f  == files[file_no]
         tb == IF f.pages = <<>>
               THEN [compact_to_symbol |-> compact_to_symbol, code_to_symbol |-> code_to_symbol]
               ELSE collect_rbc_asset_aliases(f.pages,
                      [compact_to_symbol |-> compact_to_symbol, code_to_symbol |-> code_to_symbol])
     IN  /\ compact_to_symbol' = tb.compact_to_symbol
         /\ code_to_symbol' = tb.code_to_symbol
  /\ IF file_no < Len(files)
     THEN file_no' = file_no + 1 /\ pc' = pc
     ELSE file_no' = 1 /\ pc' = "trades"
  /\ UNCHANGED <<files, trades, walkVars>>

\* lines 582-587: one turn of the loop that parses the statements; after the
\* last file parse_rbc returns trades (lines 589-591)
WalkFile ==
  /\ pc = "trades"
  /\ LET f == files[file_no]
     IN  trades' = IF f.pages = <<>> THEN trades
                   ELSE trades \o parse_rbc_statement_trades(f.name, f.pages,
                          [compact_to_symbol |-> compact_to_symbol,
                           code_to_symbol |-> code_to_symbol]).trades
  /\ IF file_no < Len(files)
     THEN file_no' = file_no + 1 /\ pc' = pc
     ELSE file_no' = file_no /\ pc' = "done"
  /\ UNCHANGED <<files, compact_to_symbol, code_to_symbol, walkVars>>

\* lines 575-580 as one fold over the files
RECURSIVE CollectAll(_, _)
CollectAll(fs, tb) ==
  IF fs = <<>> THEN tb
  ELSE CollectAll(Tail(fs),
         IF fs[1].pages = <<>> THEN tb ELSE collect_rbc_asset_aliases(fs[1].pages, tb))

\* lines 582-587 as one fold over the files
RECURSIVE WalkAll(_, _)
WalkAll(fs, tb) ==
  IF fs = <<>> THEN <<>>
  ELSE (IF fs[1].pages = <<>> THEN <<>>
        ELSE parse_rbc_statement_trades(fs[1].name, fs[1].pages, tb).trades)
       \o WalkAll(Tail(fs), tb)

\* parse_rbc when the extraction of the pages succeeds: the trades returned
parse_rbc(fs) ==
  IF fs = <<>> THEN <<>> ELSE WalkAll(fs, CollectAll(fs, EmptyTables))

NextRbc ==
  \/ NoStatements
  \/ ExtractPages
  \/ ExtractFails
  \/ CollectFile
  \/ WalkFile

SpecRbc == InitRbc /\ [][NextRbc]_vars

\* ------------------------------------------------ resolve_rbc_symbol, inputs
\* 'ABC INC (12345) ABC 5 4.00 3.00 $15.00'
LnRowAbcCode == <<"A","B","C"," ","I","N","C"," ","(","1","2","3","4","5",")"," ","A","B","C"," ","5"," ","4",".","0","0"," ","3",".","0","0"," ","$","1","5",".","0","0">>
\* 'ABC INC CLASS A ABCA 1 1.00 1.00 $1.00'
LnRowAbcA == <<"A","B","C"," ","I","N","C"," ","C","L","A","S","S"," ","A"," ","A","B","C","A"," ","1"," ","1",".","0","0"," ","1",".","0","0"," ","$","1",".","0","0">>
\* 'RBC BOND RBF777 1 1.00 1.00 $1.00'
LnRowBond == <<"R","B","C"," ","B","O","N","D"," ","R","B","F","7","7","7"," ","1"," ","1",".","0","0"," ","1",".","0","0"," ","$","1",".","0","0">>
\* 'ALPHA BETA FUND ABF 1 1.00 1.00 $1.00'
LnRowAlpha == <<"A","L","P","H","A"," ","B","E","T","A"," ","F","U","N","D"," ","A","B","F"," ","1"," ","1",".","0","0"," ","1",".","0","0"," ","$","1",".","0","0">>
\* the asset rows the alias maps are built from
Rows == <<LnRowXyz, LnRowAbcCode, LnRowAbc, LnRowAbcA, LnRowBond, LnRowAlpha, LnRowOld>>

\* 'XYZ FUND (12345)'
DescXyz == <<"X","Y","Z"," ","F","U","N","D"," ","(","1","2","3","4","5",")">>
\* 'FUND 777 (12345)'
DescTwoCodes == <<"F","U","N","D"," ","7","7","7"," ","(","1","2","3","4","5",")">>
\* 'ABC INC (12345)'
DescAbcCode == <<"A","B","C"," ","I","N","C"," ","(","1","2","3","4","5",")">>
\* 'ABC INC'
DescAbc == <<"A","B","C"," ","I","N","C">>
\* 'ABC INC CLASS'
DescAbcClass == <<"A","B","C"," ","I","N","C"," ","C","L","A","S","S">>
\* 'RBC BOND FUND (999)'
DescBondFund == <<"R","B","C"," ","B","O","N","D"," ","F","U","N","D"," ","(","9","9","9",")">>
\* 'FIDELITY X (444)'
DescFidelity == <<"F","I","D","E","L","I","T","Y"," ","X"," ","(","4","4","4",")">>
\* 'MYSTERY CO'
DescMystery == <<"M","Y","S","T","E","R","Y"," ","C","O">>
\* 'ALPHA BETA TRUST'
DescAlphaTrust == <<"A","L","P","H","A"," ","B","E","T","A"," ","T","R","U","S","T">>
\* 'UNIT 777'
DescUnit == <<"U","N","I","T"," ","7","7","7">>
\* ''
DescEmpty == <<>>
\* the descriptions resolve_rbc_symbol is called with
\* 'RBC FIDELITY (123)'
DescRbcFidelity == <<"R","B","C"," ","F","I","D","E","L","I","T","Y"," ","(","1","2","3",")">>
\* 'RBC BOND'
DescRbcBond == <<"R","B","C"," ","B","O","N","D">>
Descs ==
  {DescXyz, DescTwoCodes, DescAbcCode, DescAbc,
   DescAbcClass, DescBondFund, DescFidelity, DescMystery,
   DescAlphaTrust, DescUnit, DescEmpty, DescRbcFidelity, DescRbcBond}

\* ------------------------------------------------------- resolve_rbc_symbol
\* the alias maps are those collect_rbc_asset_aliases builds from at most
\* MaxRows asset rows; resolve_rbc_symbol is then called with a description
InitResolve ==
  /\ pc = "rows"
  /\ asset_rows = <<>>
  /\ description = <<>>
  /\ resolved = None
  /\ compact_to_symbol = EmptyTables.compact_to_symbol
  /\ code_to_symbol = EmptyTables.code_to_symbol
  /\ files = <<>> /\ file_no = 0 /\ trades = <<>>
  /\ path = <<>> /\ pages = <<>> /\ line = 0 /\ line_class = <<>> /\ nread = 0
  /\ started = 0
  /\ statement_year = 0 /\ statement_month = 0 /\ usd_to_cad = DefaultRate
  /\ page_currency = "CAD" /\ in_activity = FALSE /\ current = None
  /\ unresolved = <<>>
  /\ text = <<>> /\ number = None

idleVars == <<files, file_no, trades, path, pages, line, line_class, nread, started,
              statement_year, statement_month, usd_to_cad, page_currency,
              in_activity, current, unresolved, numVars>>

\* lines 341-370: one more asset row of an Asset Review section
AssetRow(r) ==
  /\ pc = "rows"
  /\ Len(asset_rows) < MaxRows
  /\ asset_rows' = Append(asset_rows, Rows[r])
  /\ LET tb == CollectLines(<<LnAssetReview, Rows[r]>>, 1, FALSE,
                  [compact_to_symbol |-> compact_to_symbol, code_to_symbol |-> code_to_symbol])
     IN  /\ compact_to_symbol' = tb.compact_to_symbol
         /\ code_to_symbol' = tb.code_to_symbol
  /\ UNCHANGED <<pc, description, resolved, idleVars>>

\* lines 372-416: the call
Resolve(d) ==
  /\ pc = "rows"
  /\ pc' = "resolved"
  /\ description' = d
  /\ resolved' = resolve_rbc_symbol(d, compact_to_symbol, code_to_symbol)
  /\ UNCHANGED <<asset_rows, compact_to_symbol, code_to_symbol, idleVars>>

\* lines 372-416: a second call with the same description and the same maps
ResolveAgain ==
  /\ pc = "resolved"
  /\ pc' = "again"
  /\ resolved' = resolve_rbc_symbol(description, compact_to_symbol, code_to_symbol)
  /\ UNCHANGED <<description, asset_rows, compact_to_symbol, code_to_symbol, idleVars>>

NextResolve ==
  \/ \E r \in 1..Len(Rows) : AssetRow(r)
  \/ \E d \in Descs : Resolve(d)
  \/ ResolveAgain

SpecResolve == InitResolve /\ [][NextResolve]_vars

\* ------------------------------------------------------------- parse_number
\* the characters of the texts parse_number is called with
NumCh == {"1", "5", ".", ",", "$", "-", " ", "n", "a"}

\* texts longer than MaxText
LongTexts ==
  {<<"1",",","2","3","4",".","5","6","-">>,
   <<"$","1",",","0","0","0",".","0","0">>,
   <<"3",",","1","7","0",".","8","5","-">>,
   <<"1",".","2",".","3">>,
   <<"-","1","5","-">>,
   <<"1","5","-","-">>,
   <<"+","1","5">>,
   <<"+","1","5","-">>,
   <<"-","i","n","f">>,
   <<"I","n","f","i","n","i","t","y">>,
   <<"N","a","N","-">>,
   <<"1","e","1">>,
   <<"1","_","5">>,
   <<"a","b","c","d">>}

Texts == UNION {[1..n -> NumCh] : n \in 0..MaxText} \cup LongTexts

InitNumber ==
  /\ pc = "text"
  /\ text \in Texts
  /\ number = None
  /\ asset_rows = <<>> /\ description = <<>> /\ resolved = None
  /\ compact_to_symbol = EmptyTables.compact_to_symbol
  /\ code_to_symbol = EmptyTables.code_to_symbol
  /\ files = <<>> /\ file_no = 0 /\ trades = <<>>
  /\ path = <<>> /\ pages = <<>> /\ line = 0 /\ line_class = <<>> /\ nread = 0
  /\ started = 0
  /\ statement_year = 0 /\ statement_month = 0 /\ usd_to_cad = DefaultRate
  /\ page_currency = "CAD" /\ in_activity = FALSE /\ current = None
  /\ unresolved = <<>>

\* lines 216-224: the call
ParseNumber ==
  /\ pc = "text"
  /\ pc' = "number"
  /\ number' = parse_number(text)
  /\ UNCHANGED <<text, asset_rows, description, resolved, compact_to_symbol,
                 code_to_symbol, files, file_no, trades, path, pages, line, line_class,
                 nread, started, statement_year, statement_month, usd_to_cad,
                 page_currency, in_activity, current, unresolved>>

NextNumber == ParseNumber

SpecNumber == InitNumber /\ [][NextNumber]_vars

\* ------------------------------------------------- vocabulary of the claims
\* the classification of the line of the walk with number l
ClassOf(l) == line_class[l]

\* this step read one more line, line'
ReadsALine == nread' = nread + 1

\* the line is a section marker met in state in_activity = act
IsMarker(c, act) ==
  c.line # <<>> /\ (c.footnotes \/ c.activity \/ (act /\ c.closing))

\* the line gets to the activity-start test in state in_activity = act
IsActivityLine(c, act) ==
  /\ c.line # <<>> /\ ~c.footnotes /\ ~c.activity /\ act /\ ~c.closing
  /\ c.m_activity # None

\* ... and its verb is BOUGHT or SOLD
IsTradeStart(c, act) ==
  /\ IsActivityLine(c, act)
  /\ ToUpper(Val(c.m_activity).activity) \in {<<"B","O","U","G","H","T">>, <<"S","O","L","D">>}

\* the line is handled as a detail of the live candidate
IsDetailLine(c, act) ==
  /\ c.line # <<>> /\ ~c.footnotes /\ ~c.activity /\ act /\ ~c.closing
  /\ c.m_activity = None /\ ~c.header

\* the text ends with three numeric fields
HasTrailingTriplet(t) ==
  LET ws == Split(t)
  IN  Len(ws) >= 3 /\ \A k \in (Len(ws) - 2)..Len(ws) : IsNumberWord(ws[k], TRUE)
\* the third field of that triplet, and the text before the triplet
TripletThird(t) == LET ws == Split(t) IN parse_number(ws[Len(ws)])
TripletBefore(t) == LET ws == Split(t) IN JoinSp(SubSeq(ws, 1, Len(ws) - 3))

HasAmount == current # None /\ Val(current).amount # None
Resolved  == resolve_rbc_symbol(DescText(Val(current)), compact_to_symbol, code_to_symbol)

\* this step calls flush_current on the candidate of its first state
StepFlushes ==
  \/ pc' = "done" /\ pc # "start"
  \/ /\ ReadsALine
     /\ LET c == ClassOf(line')
        IN  \/ IsMarker(c, in_activity)
            \/ IsTradeStart(c, in_activity)
            \/ IsActivityLine(c, in_activity) /\ HasAmount

\* ---------------------------------------------------------------- claims
\* C1: at most one trade candidate is live at any point of the walk; a flush
\* leaves no live candidate whichever branch it takes, so none is live after
\* a section marker or at the end of the pages; and the candidate a
\* BOUGHT/SOLD line creates is a new one, made after the previous candidate
\* was flushed into the trades or the unresolved list when it had an amount.
C1_NoLiveAfterFlush ==
  /\ Len(current) <= 1 /\ Len(current') <= 1
  /\ flush_current(W, CX).current = None
  /\ pc' = "done" => current' = None
C1_FlushBeforeCreate ==
  ReadsALine =>
    LET c == ClassOf(line')
    IN  /\ IsMarker(c, in_activity) => current' = None
        /\ IsTradeStart(c, in_activity) =>
             /\ current' # None
             /\ Len(Val(current').desc_parts) <= 1
             /\ HasAmount =>
                  Len(trades') + Len(unresolved') = Len(trades) + Len(unresolved) + 1
             /\ ~HasAmount => trades' = trades /\ unresolved' = unresolved
C1_OneLiveCandidate == [][C1_NoLiveAfterFlush /\ C1_FlushBeforeCreate]_vars
\* a candidate is live after an earlier one was emitted and another recorded
C1_Witness ==
  current # None /\ Len(trades) >= 1 /\ Len(unresolved) >= 1

\* C2: a tuple enters the trades list only from a candidate that had, when
\* it was flushed, an amount and a description resolve_rbc_symbol resolves;
\* the tuple carries that candidate's date and side and the resolved symbol.
C2_Emit ==
  trades' # trades =>
    /\ HasAmount
    /\ Resolved # None
    /\ Len(trades') = Len(trades) + 1
    /\ SubSeq(trades', 1, Len(trades)) = trades
    /\ LET t == trades'[Len(trades')]
       IN  t[1] = Val(current).date /\ t[2] = Val(current).side /\ t[3] = Resolved
C2_TradeHasAmountAndSymbol == [][C2_Emit]_vars
\* a trade was emitted, and a candidate without a symbol left no trade
C2_Witness ==
  Len(trades) = 1 /\ Len(unresolved) = 1 /\ pc = "done"

\* C3: the year of the date of the candidate a BOUGHT/SOLD line creates is
\* the statement year minus one exactly when the statement month is January
\* and the activity month is December, and the statement year otherwise.
C3_YearOfCandidate ==
  (pc = "lines" /\ line > 0 /\ IsTradeStart(ClassOf(line), in_activity)) =>
    LET m     == Val(ClassOf(line).m_activity)
        month == Val(month_token_to_number(m.mon))
        year  == IF statement_month = 1 /\ month = 12
                 THEN statement_year - 1 ELSE statement_year
        date  == Val(current).date
    IN  /\ current # None
        /\ Slice(date, 1, Len(date) - 6) = FormatInt(year, 4)
        /\ Slice(date, Len(date) - 4, Len(date) - 3) = FormatInt(month, 2)
\* a December line in a January statement got the year before
C3_Witness ==
  /\ statement_month = 1 /\ statement_year = 2023
  /\ current # None
  /\ Val(current).date = <<"2","0","2","2","-","1","2","-","2","9">>

\* C4: the amount of a live candidate is set at most once: it is the third
\* field of the first triplet met, be it at the end of the rest of the
\* BOUGHT/SOLD line, on an amount-triplet line or at the end of an
\* inline-amount line, and once set no later line changes it while the
\* candidate lives.
C4_Amount ==
  ReadsALine =>
    LET c == ClassOf(line')
    IN  /\ IsTradeStart(c, in_activity) =>
             LET rest == normalize_space(Val(c.m_activity).rest)
             IN  /\ current' # None
                 /\ Val(current').amount =
                      IF HasTrailingTriplet(rest) THEN TripletThird(rest) ELSE None
        /\ (IsDetailLine(c, in_activity) /\ current # None) =>
             /\ current' # None
             /\ Val(current').amount =
                  IF HasAmount THEN Val(current).amount
                  ELSE IF HasTrailingTriplet(c.line) THEN TripletThird(c.line)
                  ELSE None
C4_AmountSetOnce == [][C4_Amount]_vars

\* C5: the candidate a BOUGHT/SOLD line creates from a rest that ends with a
\* numeric triplet has the third field of the triplet as its amount and the
\* text before the triplet as its only description fragment.
C5_InlineTripletOnStart ==
  (pc = "lines" /\ line > 0 /\ IsTradeStart(ClassOf(line), in_activity)) =>
    LET rest == normalize_space(Val(ClassOf(line).m_activity).rest)
    IN  HasTrailingTriplet(rest) =>
          /\ current # None
          /\ Val(current).amount = TripletThird(rest)
          /\ Val(current).desc_parts =
               IF TripletBefore(rest) # <<>> THEN <<TripletBefore(rest)>> ELSE <<>>

\* C6: the amount of an emitted trade is not negative; it is the magnitude
\* of the captured amount for a CAD candidate and that magnitude times the
\* rate for a USD candidate, the rate being the number on the first exchange
\* rate line of the pages in order, 1.35 when no page has one.
FirstRate ==
  LET good == {k \in 1..Len(pages) :
                 /\ RBC_FX_RE(pages[k]) # None
                 /\ ParseFloat(RBC_FX_RE(pages[k])) # None}
  IN  IF good = {} THEN DefaultRate
      ELSE Val(ParseFloat(RBC_FX_RE(pages[CHOOSE k \in good : \A j \in good : k <= j])))
C6_Amount ==
  trades' # trades =>
    LET t == trades'[Len(trades')]
        a == Val(Val(current).amount)
    IN  /\ ~t[4].neg
        /\ Val(current).currency = "CAD" => t[4] = Abs(a)
        /\ Val(current).currency = "USD" => t[4] = Mul(Abs(a), FirstRate)
C6_TradeAmount == [][C6_Amount]_vars
\* a purchase of 1,000.01- U.S. dollars came out as 1,250.0125 at the rate
\* 1.25, the first of the two rates of the statement
C6_Witness ==
  /\ usd_to_cad = Dec(FALSE, <<"1">>, <<"2","5">>)
  /\ \E k \in 1..Len(trades) : trades[k][2] = "BUY" /\ trades[k][4] = Dec(FALSE, <<"1","2","5","0">>, <<"0","1","2","5">>)

\* C7: the flush of a candidate that has an amount and a description
\* resolve_rbc_symbol does not resolve adds nothing to the trades, adds one
\* record to the unresolved list and clears the candidate.
C7_Flush ==
  (StepFlushes /\ HasAmount /\ Resolved = None) =>
    /\ trades' = trades
    /\ unresolved' = Append(unresolved,
          <<Val(current).date, Val(current).side, DescText(Val(current)),
            Val(Val(current).amount)>>)
    /\ \/ current' = None
       \/ ReadsALine /\ IsTradeStart(ClassOf(line'), in_activity)
C7_UnresolvedRecorded == [][C7_Flush]_vars
\* two candidates without a symbol were recorded and no trade came out
C7_Witness ==
  Len(unresolved) = 2 /\ trades = <<>> /\ current = None /\ pc = "lines"

\* C8: in parse_rbc the alias maps are completely built from all the pages
\* of a statement before the walk of that statement starts, and the walk
\* does not change them; so a trade whose description is that of an asset
\* row printed on a later page of the same statement is resolved to the
\* symbol of that row.
\* line i of page p comes before line j of page q
LineBefore(p, i, q, j) == p < q \/ (p = q /\ i < j)
\* line j of page q of the pages is an asset row of an Asset Review section
\* of the statement: the section starts at a line with "Asset Review" and
\* goes on, over the pages, to the next line with "Account Activity"
IsReviewRow(pgs, q, j) ==
  /\ RBC_ASSET_LINE_RE(normalize_space(pgs[q][j])) # None
  /\ ~Contains(pgs[q][j], AssetReviewMark)
  /\ \E p \in 1..q : \E i \in 1..Len(pgs[p]) :
       /\ LineBefore(p, i, q, j)
       /\ Contains(pgs[p][i], AssetReviewMark)
       /\ \A r \in p..q : \A h \in 1..Len(pgs[r]) :
            (LineBefore(p, i, r, h) /\ ~LineBefore(q, j, r, h)) =>
              ~Contains(pgs[r][h], ActivityMark)
RowDesc(pg, j)   == normalize_space(Val(RBC_ASSET_LINE_RE(normalize_space(pg[j]))).g1)
RowSymbol(pg, j) ==
  normalize_ticker_symbol(ToUpper(Val(RBC_ASSET_LINE_RE(normalize_space(pg[j]))).g2))
\* line i of the page is a BOUGHT/SOLD line of an Account Activity section
\* that carries its amount, and the line after it closes the section
IsWholeTrade(pg, i) ==
  /\ i < Len(pg)
  /\ \E a \in 1..(i - 1) :
       /\ Contains(pg[a], ActivityMark)
       /\ \A h \in (a + 1)..(i - 1) : ~IsMarker(Classify(pg[h]), TRUE)
  /\ IsTradeStart(Classify(pg[i]), TRUE)
  /\ HasTrailingTriplet(normalize_space(Val(Classify(pg[i]).m_activity).rest))
  /\ TripletBefore(normalize_space(Val(Classify(pg[i]).m_activity).rest)) # <<>>
  /\ IsMarker(Classify(pg[i + 1]), TRUE)
TradeDesc(pg, i) == TripletBefore(normalize_space(Val(Classify(pg[i]).m_activity).rest))
C8_Step ==
  pc = "trades" =>
    LET f == files[file_no]
    IN  /\ compact_to_symbol' = compact_to_symbol
        /\ code_to_symbol' = code_to_symbol
        /\ \A q \in 1..Len(f.pages) : \A j \in 1..Len(f.pages[q]) :
             (IsReviewRow(f.pages, q, j) /\ compact_key(RowDesc(f.pages[q], j)) # <<>>) =>
               Has(compact_to_symbol, compact_key(RowDesc(f.pages[q], j)))
        /\ \A p, q \in 1..Len(f.pages) :
             \A i \in 1..Len(f.pages[p]) : \A j \in 1..Len(f.pages[q]) :
               ( /\ p < q
                 /\ extract_statement_year_month(f.name) # None
                 /\ IsWholeTrade(f.pages[p], i)
                 /\ IsReviewRow(f.pages, q, j)
                 /\ compact_key(RowDesc(f.pages[q], j)) = compact_key(TradeDesc(f.pages[p], i)) ) =>
               \E n \in (Len(trades) + 1)..Len(trades') :
                  trades'[n][3] = RowSymbol(f.pages[q], j)
C8_AliasesBeforeWalk == [][C8_Step]_vars

\* C9: resolve_rbc_symbol takes its sources in strict precedence: the first
\* parenthesized 3-5 digit code that code_to_symbol knows; else the first
\* free-standing 3-5 digit run it knows; else the entry of compact_to_symbol
\* whose key is the compact description; else an entry the scoring accepts;
\* else the issuer fallback.  The symbol of a later source is returned only
\* when every earlier source found nothing.
UpperDesc   == ToUpper(normalize_space(description))
KnownParen  == {k \in 1..Len(ParenCodes(UpperDesc)) : Has(code_to_symbol, ParenCodes(UpperDesc)[k])}
KnownRun    == {k \in 1..Len(DigitRuns(UpperDesc)) : Has(code_to_symbol, DigitRuns(UpperDesc)[k])}
ExactKey    == Has(compact_to_symbol, compact_key(UpperDesc))
\* the entries of compact_to_symbol in a containment relation with the
\* description
Containing  ==
  {i \in 1..Len(compact_to_symbol) :
     /\ compact_to_symbol[i][1] # <<>> /\ compact_key(UpperDesc) # <<>>
     /\ \/ Contains(compact_to_symbol[i][1], compact_key(UpperDesc))
        \/ Contains(compact_key(UpperDesc), compact_to_symbol[i][1])}
\* ... and those that share two tokens with it, as line 400 counts them
Overlapping ==
  {i \in 1..Len(compact_to_symbol) :
     /\ compact_to_symbol[i][1] # <<>>
     /\ Cardinality(token_key_set(normalize_space(description))
                      \cap token_key_set(compact_to_symbol[i][1])) >= 2}
First(S)    == CHOOSE k \in S : \A j \in S : k <= j
C9_Precedence ==
  (pc = "resolved" /\ normalize_space(description) # <<>>) =>
    /\ KnownParen # {} =>
         resolved = Get(code_to_symbol, ParenCodes(UpperDesc)[First(KnownParen)])
    /\ (KnownParen = {} /\ KnownRun # {}) =>
         resolved = Get(code_to_symbol, DigitRuns(UpperDesc)[First(KnownRun)])
    /\ (KnownParen = {} /\ KnownRun = {} /\ ExactKey) =>
         resolved = Get(compact_to_symbol, compact_key(UpperDesc))
    /\ (KnownParen = {} /\ KnownRun = {} /\ ~ExactKey
          /\ Containing \cup Overlapping # {}) =>
         \E i \in Containing \cup Overlapping : resolved = compact_to_symbol[i][2]
    /\ (KnownParen = {} /\ KnownRun = {} /\ ~ExactKey
          /\ Containing \cup Overlapping = {}) =>
         resolved = IssuerFallback(UpperDesc)
\* 'ABC INC (12345)' got XYZF from its code although its compact key is that
\* of the ABC row, whose symbol also the scoring would have given
C9_Witness ==
  /\ pc = "resolved"
  /\ description = DescAbcCode
  /\ asset_rows = <<LnRowXyz, LnRowAbcCode>>
  /\ ExactKey /\ Get(compact_to_symbol, compact_key(UpperDesc)) = <<"A","B","C">>
  /\ resolved = <<"X","Y","Z","F">>

\* C10: an entry of the alias table whose description shares at least two
\* uppercase alphanumeric tokens with the description of the trade, without
\* containment, is a candidate of the scoring with the score 100 times the
\* number of shared tokens plus the smaller of the two compact lengths; so a
\* description that shares two tokens with an asset row gets a symbol.
SharedTokens(row) ==
  token_key_set(normalize_space(description))
    \cap token_key_set(normalize_space(Val(RBC_ASSET_LINE_RE(normalize_space(row))).g1))
C10_TokenOverlapResolves ==
  pc = "resolved" =>
    \A k \in 1..Len(asset_rows) :
      Cardinality(SharedTokens(asset_rows[k])) >= 2 => resolved # None

\* C11 (resolve_rbc_symbol changes neither map and returns the same symbol
\* when called again) has no formula here: resolve_rbc_symbol is an operator
\* of its three arguments, so two evaluations of it agree and it has no map
\* to change in any model; Resolve and ResolveAgain are the two calls.

\* parse_rbc returned from its last line, not from one of its early returns
Returned == pc = "done" /\ file_no >= 1
\* the files of the run whose name holds a date
Dated(fs) == SelectSeq(fs, LAMBDA f : extract_statement_year_month(f.name) # None)

\* C12: a statement file whose name holds no YYYY-MM-DD is skipped entirely:
\* it gives no trade, and the trades of the run are those of the same run
\* without that file.
C12_UndatedFileSkipped ==
  Returned => trades = parse_rbc(Dated(files))
\* C13: the trades produced for one statement depend only on the name and
\* the pages of that statement: they are the trades of the run of that
\* statement alone, whatever the other files of the run.
C13_Step ==
  pc = "trades" => trades' = trades \o parse_rbc(<<files[file_no]>>)
C13_TradesOfOwnFileOnly == [][C13_Step]_vars
\* C14: when the extraction of the pages fails, parse_rbc returns the empty
\* list of trades and no exception leaves it; no alias is collected and no
\* statement is walked.
C14_Step ==
  (pc = "list" /\ pc' # pc) =>
    /\ pc' \in {"aliases", "done"}
    /\ pc' = "done" =>
         /\ trades' = <<>>
         /\ file_no' = 0
         /\ compact_to_symbol' = <<>> /\ code_to_symbol' = <<>>
C14_Final == pc = "done" => (file_no = 0 => trades = <<>>)
C14_ExtractionFailure == [][C14_Step /\ C14_Final]_vars
\* a run of two statements that give trades ended on the failure
C14_Witness ==
  /\ pc = "done" /\ file_no = 0
  /\ files = <<Statements[2], Statements[3]>>
  /\ parse_rbc(files) # <<>>
  /\ trades = <<>>

\* C15: the date of every emitted trade is a calendar date written
\* YYYY-MM-DD: the month is in 1..12 and the day exists in that month of
\* that year.
IsLeap(y) == (y % 4 = 0 /\ y % 100 # 0) \/ y % 400 = 0
DaysIn(y, m) ==
  IF m = 2 THEN (IF IsLeap(y) THEN 29 ELSE 28)
  ELSE IF m \in {4, 6, 9, 11} THEN 30 ELSE 31
IsCalendarDate(d) ==
  /\ Len(d) = 10
  /\ d[5] = "-" /\ d[8] = "-"
  /\ AllIn(Slice(d, 1, 4) \o Slice(d, 6, 7) \o Slice(d, 9, 10), DigitCh)
  /\ ParseInt(Slice(d, 6, 7)) \in 1..12
  /\ ParseInt(Slice(d, 9, 10)) \in 1..DaysIn(ParseInt(Slice(d, 1, 4)), ParseInt(Slice(d, 6, 7)))
C15_TradeDatesAreCalendarDates ==
  \A k \in 1..Len(trades) : IsCalendarDate(trades[k][1])

\* C16: parse_number gives the negative of the magnitude for a numeric text
\* with a trailing '-', the value for a well-formed positive text once commas
\* and '$' are removed, and None for a text that is not a number: one with no
\* digit in it, or one with a doubled sign.
Cleaned(t) == Strip(SelectSeq(t, LAMBDA c : c \notin {"$", ","}))
IsMagnitude(m) ==
  /\ AllIn(m, DigitCh \cup {"."})
  /\ Len(SelectSeq(m, LAMBDA c : c = ".")) <= 1
  /\ \E i \in 1..Len(m) : m[i] \in DigitCh
MagnitudeValue(neg, m) ==
  LET p == RunEnd(m, 1, DigitCh)
  IN  Dec(neg, Slice(m, 1, p - 1), Slice(m, p + 1, Len(m)))
NoDigit(t) == \A i \in 1..Len(t) : t[i] \notin DigitCh
DoubledSign(c) ==
  \/ Len(c) >= 2 /\ c[1] \in {"-", "+"} /\ (c[2] \in {"-", "+"} \/ c[Len(c)] = "-")
  \/ Len(c) >= 2 /\ c[Len(c)] = "-" /\ c[Len(c) - 1] = "-"
C16_NumberContract ==
  pc = "number" =>
    LET c == Cleaned(text)
        m == Slice(c, 1, Len(c) - 1)
    IN  /\ (c # <<>> /\ c[Len(c)] = "-" /\ IsMagnitude(m)) =>
             number = Some(MagnitudeValue(TRUE, m))
        /\ IsMagnitude(c) => number = Some(MagnitudeValue(FALSE, c))
        /\ (NoDigit(text) \/ DoubledSign(c)) => number = None

\* C17: in both alias maps the first row that supplies a key wins: the maps
\* hold exactly the keys the asset rows fed so far supply, each with the
\* symbol of the first row that supplied it, whatever rows came later.
CompactKeys(i) ==
  LET one(key) == IF key # <<>> THEN {key} ELSE {}
  IN  one(compact_key(RowDesc(asset_rows, i)))
CodeKeys(i) ==
  LET sym   == RowSymbol(asset_rows, i)
      codes == ParenCodes(RowDesc(asset_rows, i))
      rest  == Slice(sym, 4, Len(sym))
      fund  == /\ Slice(sym, 1, 3) \in {<<"R","B","F">>, <<"F","I","D">>}
               /\ rest # <<>> /\ AllIn(rest, DigitCh)
  IN  (IF codes # <<>> THEN {codes[1]} ELSE {}) \cup (IF fund THEN {rest} ELSE {})
\* keys[i] is the set of the keys row i supplies
FirstWins(map, Keys(_)) ==
  LET wins(keys) ==
        /\ \A i \in 1..Len(keys) : \A k \in keys[i] :
             /\ Has(map, k)
             /\ LET f == CHOOSE j \in 1..i : k \in keys[j] /\ \A h \in 1..(j - 1) : k \notin keys[h]
                IN  Get(map, k) = RowSymbol(asset_rows, f)
        /\ \A e \in 1..Len(map) :
             /\ \E i \in 1..Len(keys) : map[e][1] \in keys[i]
             /\ \A g \in 1..Len(map) : map[g][1] = map[e][1] => g = e
  IN  wins(SubSeq([i \in 1..Len(asset_rows) |-> Keys(i)], 1, Len(asset_rows)))
C17_FirstEntryWins ==
  pc \in {"rows", "resolved", "again"} =>
    FirstWins(compact_to_symbol, CompactKeys) /\ FirstWins(code_to_symbol, CodeKeys)
C17_Witness ==
  /\ asset_rows = <<LnRowXyz, LnRowOld>>
  /\ RowSymbol(asset_rows, 2) = <<"O","L","D","X">>
  /\ Get(compact_to_symbol, compact_key(RowDesc(asset_rows, 2))) = <<"X","Y","Z","F">>
  /\ Get(code_to_symbol, <<"1","2","3","4","5">>) = <<"X","Y","Z","F">>

\* C18: every candidate a BOUGHT/SOLD line starts is accounted for at most
\* once: when it leaves with an amount exactly one of the two lists grows by
\* exactly one record, also at the end of the last page, where no candidate
\* stays live; when it leaves without an amount neither list changes; so the
\* records and the live candidate never outnumber the BOUGHT/SOLD lines read.
C18_Step ==
  /\ Len(trades') >= Len(trades)
  /\ Len(unresolved') >= Len(unresolved)
  /\ Len(trades') + Len(unresolved') =
       Len(trades) + Len(unresolved) + (IF StepFlushes /\ HasAmount THEN 1 ELSE 0)
  /\ (pc' = "done" /\ pc # "start") => current' = None
  /\ Len(trades') + Len(unresolved') + Len(current') <= started'
C18_CandidateAccountedOnce == [][C18_Step]_vars
\* three BOUGHT/SOLD lines were read: one candidate was emitted, one was
\* recorded unresolved at the end of the pages, one had no amount
C18_Witness ==
  /\ pc = "done" /\ started = 3 /\ line = 12
  /\ Len(trades) = 1 /\ Len(unresolved) = 1
  /\ Lines[line] = LnSoldMystery /\ unresolved[1][3] = <<"M","Y","S","T","E","R","Y"," ","C","O">>

\* C19: in_activity becomes true on a line that contains "Account Activity"
\* and false on a line that contains "FOOTNOTES" (the test made first when a
\* line holds both) or, while in activity, on a line that starts with
\* "Closing Balance", and changes on no other line; each of these markers
\* first flushes the live candidate: one that holds an amount becomes the
\* last trade or the last unresolved record, with its date and side, one
\* without an amount leaves both lists alone, and none is live afterwards.
C19_Step ==
  ReadsALine =>
    LET c == ClassOf(line')
    IN  /\ (c.line # <<>> /\ c.activity /\ ~c.footnotes) => in_activity' = TRUE
        /\ (c.line # <<>> /\ c.footnotes) => in_activity' = FALSE
        /\ (c.line # <<>> /\ in_activity /\ c.closing /\ ~c.activity) => in_activity' = FALSE
        /\ in_activity' # in_activity => IsMarker(c, in_activity)
        /\ IsMarker(c, in_activity) =>
             /\ current' = None
             /\ ~HasAmount => trades' = trades /\ unresolved' = unresolved
             /\ HasAmount =>
                  \/ /\ unresolved' = unresolved
                     /\ Len(trades') = Len(trades) + 1
                     /\ SubSeq(trades', 1, Len(trades)) = trades
                     /\ trades'[Len(trades')][1] = Val(current).date
                     /\ trades'[Len(trades')][2] = Val(current).side
                  \/ /\ trades' = trades
                     /\ unresolved' = Append(unresolved,
                          <<Val(current).date, Val(current).side, DescText(Val(current)),
                            Val(Val(current).amount)>>)
C19_MarkersFlushAndToggle == [][C19_Step]_vars
\* "Closing Balance" was read in activity after a BOUGHT line with its amount:
\* the candidate came out as a trade, none is live and the section is closed
C19_Witness ==
  /\ pc = "lines" /\ nread = 3 /\ line = 3 /\ Lines[line] = LnClosing
  /\ ~in_activity /\ current = None
  /\ Len(trades) = 1 /\ trades[1][2] = "BUY" /\ unresolved = <<>>

\* C20: while in_activity is false no candidate is live, and a line read
\* then that does not contain "Account Activity", be it a BOUGHT/SOLD line,
\* an amount triplet, "Closing Balance" or "FOOTNOTES", leaves in_activity,
\* the candidate, the trades and the unresolved records as they were.
C20_Step ==
  /\ ~in_activity => current = None
  /\ ~in_activity' => current' = None
  /\ (ReadsALine /\ ~in_activity /\ ~ClassOf(line').activity) =>
       /\ in_activity' = in_activity
       /\ current' = current
       /\ trades' = trades
       /\ unresolved' = unresolved
C20_IgnoredOutsideActivity == [][C20_Step]_vars
\* after a trade came out and FOOTNOTES closed the section, a BOUGHT line
\* with its amount was read and nothing moved
C20_Witness ==
  /\ pc = "lines" /\ nread = 4 /\ line = 4 /\ Lines[line] = LnBoughtInline
  /\ started = 1 /\ ~in_activity /\ current = None
  /\ Len(trades) = 1 /\ unresolved = <<>>

\* C21: an activity-start line whose verb is neither BOUGHT nor SOLD, read
\* in activity, closes the previous trade: a candidate with an amount becomes
\* the last trade or the last unresolved record, one without an amount goes
\* without a record, no candidate is live afterwards and none was created;
\* an amount triplet read next finds no candidate and changes nothing.
IsOtherActivity(c, act) == IsActivityLine(c, act) /\ ~IsTradeStart(c, act)
C21_Step ==
  ReadsALine =>
    LET c == ClassOf(line')
    IN  /\ IsOtherActivity(c, in_activity) =>
             /\ current' = None
             /\ started' = started
             /\ in_activity' = in_activity
             /\ ~HasAmount => trades' = trades /\ unresolved' = unresolved
             /\ HasAmount =>
                  \/ /\ unresolved' = unresolved
                     /\ Len(trades') = Len(trades) + 1
                     /\ SubSeq(trades', 1, Len(trades)) = trades
                     /\ trades'[Len(trades')][1] = Val(current).date
                     /\ trades'[Len(trades')][2] = Val(current).side
                  \/ /\ trades' = trades
                     /\ unresolved' = Append(unresolved,
                          <<Val(current).date, Val(current).side, DescText(Val(current)),
                            Val(Val(current).amount)>>)
        /\ (/\ line \in 1..Len(Lines)
            /\ IsOtherActivity(ClassOf(line), in_activity)
            /\ c.m_amt # None) =>
             /\ current = None /\ current' = None
             /\ trades' = trades /\ unresolved' = unresolved
C21_OtherActivityClosesTrade == [][C21_Step]_vars
\* a DIVIDEND line was read after a BOUGHT line that had its amount: the
\* trade came out, no candidate is live and the section is still open
C21_Witness ==
  /\ pc = "lines" /\ nread = 3 /\ line = 7 /\ Lines[line] = LnDividend
  /\ started = 1 /\ in_activity /\ current = None
  /\ Len(trades) = 1 /\ unresolved = <<>>

\* C22: collect_rbc_asset_aliases reads the lines of all the pages in
\* document order, enters asset-review mode on "Asset Review" and leaves it
\* only on "Account Activity"; the tables get exactly the asset rows read in
\* that mode, so the pages of a statement read as one run of lines give the
\* same tables.
RECURSIVE DocLines(_)
DocLines(pgs) == IF pgs = <<>> THEN <<>> ELSE pgs[1] \o DocLines(Tail(pgs))
C22_Step ==
  (pc = "aliases" /\ files[file_no].pages # <<>>) =>
    LET tb == CollectLines(DocLines(files[file_no].pages), 1, FALSE,
                [compact_to_symbol |-> compact_to_symbol, code_to_symbol |-> code_to_symbol])
    IN  /\ compact_to_symbol' = tb.compact_to_symbol
        /\ code_to_symbol' = tb.code_to_symbol
C22_ReviewModeLeftOnlyByActivity == [][C22_Step]_vars

\* C23: once the live candidate has its amount, a further line of
\* amount-triplet shape, three numeric fields and nothing else, changes
\* neither its amount nor its description fragments, and so not the symbol
\* it resolves to.
C23_Step ==
  (/\ ReadsALine
   /\ HasAmount
   /\ IsDetailLine(ClassOf(line'), in_activity)
   /\ ClassOf(line').m_amt # None) =>
    /\ current' # None
    /\ Val(current').amount = Val(current).amount
    /\ Val(current').desc_parts = Val(current).desc_parts
C23_TripletAfterAmountIgnored == [][C23_Step]_vars

\* C24: when the scoring stage is reached, an entry in a containment
\* relation with the description scores the smaller of the two compact
\* lengths, and the symbol returned is that of the entry of the highest
\* score, the one inserted first among those of equal highest score.
ScoringReached ==
  /\ pc \in {"resolved", "again"}
  /\ normalize_space(description) # <<>>
  /\ KnownParen = {} /\ KnownRun = {} /\ ~ExactKey
ScoreOf(i) ==
  LET key == compact_to_symbol[i][1]
      len == IF Len(key) < Len(compact_key(UpperDesc))
             THEN Len(key) ELSE Len(compact_key(UpperDesc))
  IN  IF i \in Containing THEN len
      ELSE 100 * Cardinality(token_key_set(normalize_space(description))
                               \cap token_key_set(key)) + len
Best ==
  {i \in Containing \cup Overlapping :
     \A j \in Containing \cup Overlapping : ScoreOf(j) <= ScoreOf(i)}
C24_HighestScoreFirstInserted ==
  (ScoringReached /\ Containing # {}) => resolved = compact_to_symbol[First(Best)][2]
\* 'ABC INC' is contained in the keys of two rows, which both score 6: the
\* row fed first gave the symbol
C24_Witness ==
  /\ pc = "resolved"
  /\ description = DescAbc
  /\ asset_rows = <<LnRowAbcA, LnRowAbcCode>>
  /\ ScoringReached /\ Best = {1, 2} /\ ScoreOf(1) = 6
  /\ resolved = <<"A","B","C","A">>

\* C25: a fund symbol is made up only when no alias entry scored and the
\* description holds a code of 3 to 5 digits in parentheses: "RBF" and the
\* first such code when it contains "RBC", otherwise "FID" and that code
\* when it contains "FIDELITY"; in every other case where nothing scored,
\* and for an empty description, there is no symbol; when a code, the key
\* or a scored entry is known the symbol is one of the tables.
NothingScored ==
  KnownParen = {} /\ KnownRun = {} /\ ~ExactKey /\ Containing \cup Overlapping = {}
HasParenCode == ParenCodes(UpperDesc) # <<>>
TableSymbols ==
  {compact_to_symbol[i][2] : i \in 1..Len(compact_to_symbol)}
    \cup {code_to_symbol[i][2] : i \in 1..Len(code_to_symbol)}
C25_FundSymbolFallback ==
  pc \in {"resolved", "again"} =>
    /\ normalize_space(description) = <<>> => resolved = None
    /\ (normalize_space(description) # <<>> /\ NothingScored) =>
         /\ (HasParenCode /\ Contains(UpperDesc, <<"R","B","C">>)) =>
              resolved = <<"R","B","F">> \o ParenCodes(UpperDesc)[1]
         /\ (HasParenCode /\ ~Contains(UpperDesc, <<"R","B","C">>)
               /\ Contains(UpperDesc, <<"F","I","D","E","L","I","T","Y">>)) =>
              resolved = <<"F","I","D">> \o ParenCodes(UpperDesc)[1]
         /\ (~HasParenCode
               \/ (~Contains(UpperDesc, <<"R","B","C">>)
                     /\ ~Contains(UpperDesc, <<"F","I","D","E","L","I","T","Y">>))) =>
              resolved = None
    /\ (normalize_space(description) # <<>> /\ ~NothingScored) =>
         resolved \in TableSymbols
\* 'RBC FIDELITY (123)' met a table whose only row did not score: the symbol
\* is RBF123
C25_Witness ==
  /\ pc = "resolved"
  /\ description = DescRbcFidelity
  /\ asset_rows = <<LnRowAbc>>
  /\ NothingScored /\ HasParenCode
  /\ resolved = <<"R","B","F","1","2","3">>

\* C26: in_activity and the live candidate carry across page boundaries: a
\* new page by itself changes neither, and the first line of a U.S. dollar
\* page leaves the flag and the date, side, currency and amount of the
\* candidate; the candidate takes the currency of the page of its
\* BOUGHT/SOLD line and keeps it on every later line, and its amount is
\* scaled by that currency, whatever the page it is flushed on.
C26_Step ==
  /\ (pc \in {"pages", "lines"} /\ pc' = "lines" /\ nread' = nread) =>
       in_activity' = in_activity /\ current' = current
  /\ (ReadsALine /\ line' = HeaderNo) =>
       /\ in_activity' = in_activity
       /\ (current = None) = (current' = None)
       /\ current # None =>
            /\ Val(current').date = Val(current).date
            /\ Val(current').side = Val(current).side
            /\ Val(current').amount = Val(current).amount
  /\ (ReadsALine /\ IsTradeStart(ClassOf(line'), in_activity)) =>
       current' # None /\ Val(current').currency = page_currency'
  /\ (ReadsALine /\ ~IsTradeStart(ClassOf(line'), in_activity)
        /\ current # None /\ current' # None) =>
       Val(current').currency = Val(current).currency
  /\ Len(trades') > Len(trades) =>
       trades'[Len(trades')][4] =
         IF Val(current).currency = "USD"
         THEN Mul(Abs(Val(Val(current).amount)), usd_to_cad)
         ELSE Abs(Val(Val(current).amount))
C26_CandidateCarriesAcrossPages == [][C26_Step]_vars
\* a SOLD line of a U.S. dollar page got its amount from the triplet line of
\* the next page, a Canadian dollar page, where the walk ended: the trade is
\* 1,000.00 at the rate 1.25, that is 1250.0
C26_Witness ==
  /\ pc = "done" /\ page_currency = "CAD" /\ nread = 4 /\ line = 8
  /\ Lines[line] = LnTriplet
  /\ usd_to_cad = Dec(FALSE, <<"1">>, <<"2","5">>)
  /\ trades = <<<<IsoDate(2022, 12, 29), "SELL", <<"A","B","C">>, Dec(FALSE, <<"1","2","5","0">>, <<>>)>>>>
====
